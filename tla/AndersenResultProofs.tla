------------------------ MODULE AndersenResultProofs ------------------------
(***************************************************************************)
(* What the default pointer analysis promises of its result, for every     *)
(* program and every order of the loops: when analyze() returns, copies,   *)
(* resolved calls and the statements of unmerged pointers are satisfied.   *)
(***************************************************************************)
EXTENDS AndersenGraphProofs, FiniteSetTheorems

-----------------------------------------------------------------------------
(* The inductive invariant, part one: the graph and the running handler.   *)

(* No edge leads a node to itself.                                         *)
NoLoops == \A e \in edges : e.kind \in Direct => e.src # e.dst

(* A field with a node has been pointed to, or is about to be: collapsing  *)
(* one always asks for another round.                                      *)
FieldsHeld ==
  /\ \A f \in Field : f \in nodes \/ rep[f] # f => revPts[f] # {} \/ f \in tmpDstPts
  /\ \A f \in fieldsLeft : revPts[f] # {}

(* The wave is at the out-edges of its node, the call graph at new edges.  *)
Handled ==
  /\ pc = "copygep" => \A e \in edgesLeft : e \in edges /\ e.src = cur
  /\ gep # None => gep \in edges /\ gep.src = cur
  /\ \A p \in cpySrcNodes : p[1] \in nodes /\ p[2] \in nodes

Shape == prog \in Programs /\ NoLoops /\ FieldsHeld /\ Handled
-----------------------------------------------------------------------------
(* A merge drops the edges that would become loops.                        *)
LEMMA MoveNoLoops ==
  ASSUME NEW E \in SUBSET Edge, NEW n \in Node, NEW r \in Node, n # r, rep[r] = r, rep[n] = n,
         \A e \in E : e.kind \in Direct => e.src # e.dst
  PROVE  \A e \in MoveOutEdges(MoveInEdges(E, n, r), n, r) : e.kind \in Direct => e.src # e.dst
<1> DEFINE F == MoveInEdges(E, n, r)
<1>1. \A e \in Edge : /\ [e EXCEPT !.dst = r].src = e.src /\ [e EXCEPT !.dst = r].dst = r
                      /\ [e EXCEPT !.dst = r].kind = e.kind
                      /\ [e EXCEPT !.src = r].src = r /\ [e EXCEPT !.src = r].dst = e.dst
                      /\ [e EXCEPT !.src = r].kind = e.kind
  BY DEF Edge
<1>2. F \subseteq Edge
  BY MoveEdgesType
<1>3. ASSUME NEW k \in F, k.kind \in Direct PROVE k.src # k.dst
  <2>1. k \in E \/ \E e \in E : /\ k = [e EXCEPT !.dst = r]
                                /\ rep[e.src] = r => e.kind \notin Direct
    BY DEF MoveInEdges
  <2>2. ASSUME NEW e \in E, k = [e EXCEPT !.dst = r], rep[e.src] = r => e.kind \notin Direct
        PROVE  k.src # k.dst
    <3>1. k.src = e.src /\ k.dst = r /\ k.kind = e.kind
      BY <1>1, <2>2
    <3> QED
      BY <1>3, <2>2, <3>1
  <2> QED
    BY <1>3, <2>1, <2>2
<1> HIDE DEF F
<1>4. ASSUME NEW g \in MoveOutEdges(F, n, r), g.kind \in Direct PROVE g.src # g.dst
  <2>1. g \in F \/ \E k \in F : /\ g = [k EXCEPT !.src = r]
                                /\ rep[k.dst] = r => k.kind \notin Direct
    BY DEF MoveOutEdges
  <2>2. ASSUME NEW k \in F, g = [k EXCEPT !.src = r], rep[k.dst] = r => k.kind \notin Direct
        PROVE  g.src # g.dst
    <3>1. g.src = r /\ g.dst = k.dst /\ g.kind = k.kind
      BY <1>1, <1>2, <2>2
    <3> QED
      BY <1>4, <2>2, <3>1
  <2> QED
    BY <1>3, <1>4, <2>1, <2>2
<1> QED
  BY <1>4 DEF F

(* The nodes and the sets that a merge starts from.                        *)
LEMMA MergedPair ==
  ASSUME TypeOK, GraphOK, MergeSccNode \/ CollapseOneField
  PROVE  \/ UNCHANGED <<graphVars, revPts>>
         \/ \E n, r \in nodes : \E P : n # r /\ MergeNodeToRep(n, r, P)
<1>1. CASE MergeSccNode
  BY <1>1, SccMoves
<1>2. CASE CollapseOneField
  BY <1>2, FieldMoves
<1> QED
  BY <1>1, <1>2

(* The actions that change neither graph nor maps.                         *)
Elsewhere ==
  \/ ProcessAllAddr \/ SCCDetect \/ ProcessNode \/ ProcessPWCNode \/ ResumePWCNode
  \/ ProcessCopy \/ ProcessGep \/ FinishGep \/ FinishCopyGep
  \/ CollapseNext \/ CollapseNodePts \/ FinishCollapseField
  \/ PopFromWorklist \/ ConnectPair \/ FinishCallGraph \/ UNCHANGED vars

(* As the code of each shows.                                              *)
LEMMA ElsewhereSame == Elsewhere => UNCHANGED graphVars
BY DEF Elsewhere, vars, ProcessAllAddr, SCCDetect, ProcessNode, ProcessPWCNode, ResumePWCNode,
  ProcessCopy, ProcessGep, FinishGep, FinishCopyGep, CollapseNext, CollapseNodePts,
  FinishCollapseField, PopFromWorklist, ConnectPair, FinishCallGraph

(* Only addCopyCGEdge() adds edges.                                        *)
LEMMA NewEdges ==
  ASSUME TypeOK, [Next]_vars, ~(MergeSccNode \/ CollapseOneField)
  PROVE  /\ edges \subseteq edges'
         /\ \A e \in edges' \ edges : e.kind = "copy" /\ e.src # e.dst
<1> USE DEF graphVars
<1>1. \A P : \A e \in NewCopyEdges(P) : e.kind = "copy" /\ e.src # e.dst
  BY DEF NewCopyEdges
<1>2. CASE Elsewhere
  BY <1>2, ElsewhereSame
<1>3. CASE UpdateReps
  BY <1>3 DEF UpdateReps
<1>4. CASE GepPtd
  BY <1>1, <1>4 DEF GepPtd, GepBlkOrConst, GepVariant, GepNormal, AddCopyEdges
<1>5. CASE HandleLoad \/ HandleStore
  BY <1>1, <1>5 DEF HandleLoad, HandleStore, HandleEdge, AddCopyEdges
<1>6. CASE UpdateCallGraph
  BY <1>1, <1>6 DEF UpdateCallGraph
<1> QED
  BY <1>2, <1>3, <1>4, <1>5, <1>6 DEF Next, Elsewhere, Terminated

(* No step makes a loop.                                                   *)
LEMMA StepNoLoops ==
  ASSUME TypeOK, GraphOK, NoLoops, [Next]_vars
  PROVE  NoLoops'
<1>1. CASE MergeSccNode \/ CollapseOneField
  <2>1. CASE edges' = edges
    BY <2>1 DEF NoLoops
  <2>2. CASE \E n, r \in nodes : \E P : n # r /\ MergeNodeToRep(n, r, P)
    <3>1. PICK n \in nodes, r \in nodes : \E P : n # r /\ MergeNodeToRep(n, r, P)
      BY <2>2
    <3>2. n # r /\ edges' = MoveOutEdges(MoveInEdges(edges, n, r), n, r)
      BY <3>1 DEF MergeNodeToRep
    <3>3. n \in Node /\ r \in Node /\ rep[n] = n /\ rep[r] = r /\ edges \in SUBSET Edge
      BY DEF GraphOK, Graph, Reps, TypeOK
    <3> QED
      BY <3>2, <3>3, MoveNoLoops DEF NoLoops
  <2> QED
    BY <1>1, <2>1, <2>2, MergedPair DEF graphVars
<1>2. CASE ~(MergeSccNode \/ CollapseOneField)
  BY <1>2, NewEdges DEF NoLoops
<1> QED
  BY <1>1, <1>2

(* The reverse map forgets nobody.                                         *)
LEMMA RevGrows ==
  ASSUME TypeOK, GraphOK, [Next]_vars, NEW o \in ObjNode
  PROVE  revPts[o] \subseteq revPts'[o]
<1> USE DEF graphVars, ptVars
<1>1. ASSUME NEW D, UnionPts(D) PROVE revPts[o] \subseteq revPts'[o]
  BY <1>1 DEF UnionPts
<1>2. ASSUME NEW n, NEW r, NEW P, MergeNodeToRep(n, r, P) PROVE revPts[o] \subseteq revPts'[o]
  BY <1>2 DEF MergeNodeToRep
<1>3. CASE MergeSccNode \/ CollapseOneField
  BY <1>2, <1>3, MergedPair
<1>4. CASE ~(MergeSccNode \/ CollapseOneField)
  <2>1. revPts' = revPts \/ \E D : UnionPts(D)
    BY <1>4 DEF Next, vars, ProcessAllAddr, SCCDetect, UpdateReps, ProcessNode, ProcessPWCNode,
      ResumePWCNode, ProcessCopy, ProcessGep, GepPtd, GepBlkOrConst, GepVariant, GepNormal,
      AddCopyEdges, FinishGep, FinishCopyGep, CollapseNext, CollapseNodePts, FinishCollapseField,
      PopFromWorklist, HandleLoad, HandleStore, HandleEdge, UpdateCallGraph, ConnectPair,
      FinishCallGraph, Terminated
  <2> QED
    BY <1>1, <2>1
<1> QED
  BY <1>3, <1>4

(* Only a node of the graph is given another representative.               *)
LEMMA Renamed ==
  ASSUME TypeOK, GraphOK, [Next]_vars, NEW x \in Node, rep'[x] # x
  PROVE  rep[x] # x \/ x \in nodes
<1> USE DEF graphVars
<1>1. CASE MergeSccNode
  <2>1. PICK n \in nodes, r \in nodes : rep' = [rep EXCEPT ![n] = r]
    BY <1>1, SccMoves
  <2> QED
    BY <2>1 DEF TypeOK
<1>2. CASE CollapseOneField
  <2>1. PICK f \in fieldsLeft : MergeField(rep[f], rep[collapsing], Redirected(f))
    BY <1>2, PickSub DEF CollapseOneField
  <2>2. /\ pc # "merge" /\ changedReps = {} /\ f \in Node /\ Resolved(f)
    BY <1>2 DEF CollapseOneField, GraphOK, Graph, Merges, Facts, TypeOK, Node, ObjNode
  <2>3. rep[f] \in nodes /\ rep[rep[f]] = rep[f] /\ \A y \in subs[rep[f]] : rep[y] = rep[f]
    BY <2>2, NamedOnGraph DEF GraphOK, Graph, Reps, TypeOK
  <2>4. rep'[x] = rep[x] \/ x = rep[f] \/ x \in subs[rep[f]]
    BY <2>1 DEF MergeField
  <2> QED
    BY <2>3, <2>4
<1>3. CASE UpdateReps
  <2>1. \A c \in changedReps : c \notin nodes /\ rep[c] \in nodes
    BY <1>3 DEF UpdateReps, GraphOK, Graph, Merges
  <2>2. rep'[x] = rep[x] \/ \E c \in changedReps : x \in subs[c]
    BY <1>3 DEF UpdateReps
  <2>3. \A c \in changedReps : x \in subs[c] => x = c \/ rep[x] = c
    BY <2>1 DEF GraphOK, Graph, Reps, Merges
  <2> QED
    BY <2>1, <2>2, <2>3
<1>4. CASE ~(MergeSccNode \/ CollapseOneField \/ UpdateReps)
  <2>1. rep' = rep
    BY <1>4, ElsewhereSame DEF Next, Elsewhere, GepPtd, HandleLoad, HandleStore, HandleEdge,
      UpdateCallGraph, Terminated
  <2> QED
    BY <2>1
<1> QED
  BY <1>1, <1>2, <1>3, <1>4

(* A field gets a node when it is on its way into a points-to set.         *)
LEMMA StepFieldsHeld ==
  ASSUME TypeOK, CurOK, GraphOK, Sending, Shape, [Next]_vars
  PROVE  FieldsHeld'
<1> USE DEF graphVars, gepVars, collapseVars
<1>1. \A f \in Field : f \in ObjNode /\ f \in Node
  BY DEF ObjNode, Node
<1>2. ASSUME NEW f \in Field, f \in nodes' \/ rep'[f] # f
      PROVE  revPts'[f] # {} \/ f \in tmpDstPts'
  <2>1. CASE revPts[f] # {}
    BY <1>1, <2>1, RevGrows
  <2>2. CASE f \notin nodes /\ rep[f] = f
    <3>1. f \in nodes' \ nodes
      BY <1>1, <1>2, <2>2, Renamed
    <3>2. ASSUME NEW n, NEW r, NEW P, MergeNodeToRep(n, r, P) PROVE nodes' \subseteq nodes
      BY <3>2 DEF MergeNodeToRep
    <3>3. ~(MergeSccNode \/ CollapseOneField)
      BY <3>1, <3>2, MergedPair
    <3>4. ~Elsewhere
      BY <3>1, ElsewhereSame
    <3>5. GepPtd
      BY <3>1, <3>3, <3>4 DEF Next, Elsewhere, UpdateReps, HandleLoad, HandleStore, HandleEdge,
        UpdateCallGraph, Terminated
    <3> QED
      BY <3>1, <3>5 DEF GepPtd, GepBlkOrConst, GepVariant, GepNormal
  <2>3. CASE f \in tmpDstPts
    <3>1. CASE FinishGep
      <4>1. UnionPts(Into(gep.dst, tmpDstPts)) /\ gep # None
        BY <3>1 DEF FinishGep
      <4>2. gep.dst \in Node
        BY <4>1 DEF TypeOK, Edge
      <4>3. f \in Into(gep.dst, tmpDstPts)[gep.dst]
        BY <2>3, <4>2 DEF Into
      <4>4. gep.dst \in revPts'[f]
        BY <1>1, <4>1, <4>2, <4>3 DEF UnionPts
      <4> QED
        BY <4>4
    <3>2. CASE ~FinishGep
      <4>1. tmpDstPts \subseteq tmpDstPts'
        BY <3>2 DEF Next, vars, ProcessAllAddr, SCCDetect, MergeSccNode, UpdateReps, ProcessNode,
          ProcessPWCNode, ResumePWCNode, ProcessCopy, ProcessGep, GepPtd, GepBlkOrConst,
          GepVariant, GepNormal, FinishCopyGep, CollapseNext, CollapseNodePts, CollapseOneField,
          FinishCollapseField, PopFromWorklist, HandleLoad, HandleStore, HandleEdge,
          UpdateCallGraph, ConnectPair, FinishCallGraph, Terminated
      <4> QED
        BY <2>3, <4>1
    <3> QED
      BY <3>1, <3>2
  <2> QED
    BY <2>1, <2>2, <2>3 DEF Shape, FieldsHeld
<1>3. ASSUME NEW f \in fieldsLeft' PROVE revPts'[f] # {}
  <2>1. CASE f \in fieldsLeft
    BY <1>1, <2>1, RevGrows DEF Shape, FieldsHeld, TypeOK
  <2>2. CASE f \notin fieldsLeft
    <3>1. CollapseNext \/ CollapseNodePts
      BY <2>2, <1>3 DEF Next, vars, ProcessAllAddr, SCCDetect, MergeSccNode, UpdateReps, ProcessNode,
        ProcessPWCNode, ResumePWCNode, ProcessCopy, ProcessGep, GepPtd, FinishGep, FinishCopyGep,
        CollapseOneField, FinishCollapseField, PopFromWorklist, HandleLoad, HandleStore, HandleEdge,
        UpdateCallGraph, ConnectPair, FinishCallGraph, Terminated
    <3>2. pc # "copygep" /\ tmpDstPts = {}
      BY <3>1 DEF CollapseNext, CollapseNodePts, Sending, Stages
    <3>3. f \in Field /\ (f \in nodes \/ rep[f] # f)
      BY <2>2, <3>1 DEF CollapseNext, CollapseNodePts, CollapseField
    <3>4. revPts[f] # {}
      BY <3>2, <3>3 DEF Shape, FieldsHeld
    <3> QED
      BY <1>1, <3>3, <3>4, RevGrows
  <2> QED
    BY <2>1, <2>2
<1> QED
  BY <1>2, <1>3 DEF FieldsHeld

(* The edges in hand are out-edges of the node in hand.                    *)
LEMMA StepHandled ==
  ASSUME TypeOK, CurOK, GraphOK, GraphOK', Sending, Shape, [Next]_vars
  PROVE  Handled'
<1> USE DEF graphVars, gepVars, collapseVars, callVars
<1>1. CASE ProcessNode \/ ResumePWCNode
  <2>1. \E n : HandleCopyGep(n)
    BY <1>1 DEF ProcessNode, ResumePWCNode
  <2>2. gep = None /\ gep' = gep /\ UNCHANGED <<edges, nodes, cpySrcNodes>>
    BY <1>1 DEF ProcessNode, ResumePWCNode, Sending, Stages
  <2> QED
    BY <2>1, <2>2 DEF HandleCopyGep, Shape, Handled
<1>2. CASE ProcessCopy \/ ProcessGep \/ GepPtd \/ FinishGep
  <2>1. /\ pc = "copygep" /\ cur' = cur /\ cpySrcNodes' = cpySrcNodes
        /\ edges \subseteq edges' /\ nodes \subseteq nodes'
    BY <1>2 DEF ProcessCopy, ProcessGep, GepPtd, FinishGep, GepBlkOrConst, GepVariant, GepNormal,
                AddCopyEdges
  <2>2. edgesLeft' \subseteq edgesLeft /\ gep' \in {gep, None} \union edgesLeft
    BY <1>2, PickSub DEF ProcessCopy, ProcessGep, GepPtd, FinishGep
  <2> QED
    BY <2>1, <2>2 DEF Shape, Handled
<1>3. CASE UpdateCallGraph
  <2>1. /\ pc' # "copygep" /\ gep' = gep /\ gep = None /\ nodes' = nodes
        /\ \A p \in cpySrcNodes' : \E e \in edges' : p = <<e.src, e.dst>>
    BY <1>3 DEF UpdateCallGraph, SolvePost, Sending, Stages
  <2> QED
    BY <2>1 DEF Handled, GraphOK, Graph, Ends
<1>4. CASE MergeSccNode \/ CollapseOneField
  <2>1. cpySrcNodes' = cpySrcNodes /\ pc' = pc /\ pc \in {"merge", "pwc", "drain"} /\ gep' = gep
    BY <1>4 DEF MergeSccNode, CollapseOneField, GraphOK, Graph, Merges
  <2>2. gep' = None /\ cpySrcNodes' = {}
    BY <2>1 DEF Sending, Stages
  <2> QED
    BY <2>1, <2>2 DEF Handled
<1>5. CASE \/ ProcessAllAddr \/ SCCDetect \/ ProcessPWCNode \/ UpdateReps \/ FinishCopyGep
           \/ CollapseNext \/ CollapseNodePts \/ FinishCollapseField
           \/ PopFromWorklist \/ HandleLoad \/ HandleStore \/ ConnectPair \/ FinishCallGraph
  <2>1. pc' # "copygep" /\ gep' = gep /\ cpySrcNodes' \subseteq cpySrcNodes /\ nodes' = nodes
    BY <1>5 DEF ProcessAllAddr, SCCDetect, ProcessPWCNode, UpdateReps, FinishCopyGep, CollapseNext,
      CollapseNodePts, FinishCollapseField, PopFromWorklist, SolvePost, HandleLoad, HandleStore,
      HandleEdge, ConnectPair, FinishCallGraph, GraphOK, Graph, Merges
  <2>2. gep' = None
    BY <1>5, <2>1 DEF ProcessAllAddr, SCCDetect, ProcessPWCNode, UpdateReps, FinishCopyGep,
      CollapseNext, CollapseNodePts, FinishCollapseField, PopFromWorklist, SolvePost, HandleLoad,
      HandleStore, ConnectPair, FinishCallGraph, Sending, Stages, GraphOK, Graph, Merges
  <2> QED
    BY <2>1, <2>2 DEF Shape, Handled
<1>6. CASE UNCHANGED vars
  BY <1>6 DEF vars, Shape, Handled
<1> QED
  BY <1>1, <1>2, <1>3, <1>4, <1>5, <1>6 DEF Next, Terminated

(* The program does not change.                                            *)
LEMMA SameProgram == [Next]_vars => prog' = prog
BY DEF Next, vars, ProcessAllAddr, SCCDetect, MergeSccNode, UpdateReps, ProcessNode,
  ProcessPWCNode, ResumePWCNode, ProcessCopy, ProcessGep, GepPtd, FinishGep, FinishCopyGep,
  CollapseNext, CollapseNodePts, CollapseOneField, FinishCollapseField, PopFromWorklist,
  HandleLoad, HandleStore, HandleEdge, UpdateCallGraph, ConnectPair, FinishCallGraph, Terminated

(* The statements of a program make no loop, and no field has a node yet.  *)
LEMMA InitShape == Init => Shape
<1> SUFFICES ASSUME Init PROVE Shape
  OBVIOUS
<1>1. nodes \intersect Field = {}
  BY DisjointAssumption DEF Init, Named
<1>2. \A f \in Field : f \in Node
  BY DEF ObjNode, Node
<1> QED
  BY <1>1, <1>2, StatementAssumption DEF Init, Shape, NoLoops, FieldsHeld, Handled

(* Every step keeps part one.                                              *)
LEMMA StepShape ==
  ASSUME TypeOK, CurOK, GraphOK, GraphOK', Sending, Shape, [Next]_vars
  PROVE  Shape'
BY StepNoLoops, StepFieldsHeld, StepHandled, SameProgram DEF Shape
-----------------------------------------------------------------------------
(* Part two: the wave leaves nothing behind.  A node that shares its place *)
(* with a field may be given facts out of turn (processGepPts()); unless a *)
(* further round is due, every other edge leads up the stack, so that what *)
(* a node gets reaches it before its turn.                                 *)
Late(n) == \E f \in Field : rep[f] = n
Running == pc \in {"wave", "pwc", "copygep", "drain", "post", "done"}
Goes(n, m) == <<n, m>> \in merging \/ (m = n /\ \A p \in merging : p[1] # n)

MergeOrdered == pc = "merge" =>
  /\ ~reanalyze /\ nodes \subseteq nodeStack \union changedReps
  /\ \A p \in waveOrder : p[1] # p[2] /\ p[2] \in nodeStack
  /\ \A e \in edges : e.kind \in Direct =>
       \A m, n \in nodes : Goes(e.src, m) /\ Goes(e.dst, n) => m = n \/ <<m, n>> \in waveOrder

EdgesOrdered == Running /\ ~reanalyze =>
  \A e \in edges : e.kind \in Direct => <<e.src, e.dst>> \in waveOrder \/ Late(e.dst)

StackOrdered == Running =>
  \A p \in waveOrder :
    /\ p[1] # p[2]
    /\ p[1] \in nodeStack \/ (pc \in {"pwc", "copygep"} /\ p[1] = cur) => p[2] \in nodeStack

TurnsTaken == Running /\ ~reanalyze =>
  \A n \in nodes : \/ n \in nodeStack \/ Late(n) \/ (pc = "pwc" /\ n = cur)
                   \/ pts[n] \subseteq propa[n]

Finished ==
  /\ pc \in {"post", "done"} => nodeStack = {}
  /\ pc = "done" => /\ ~reanalyze /\ worklist = {}
                    /\ Cardinality(indCalls) <= CallLimit => NewTargets = {}

Ordered == MergeOrdered /\ EdgesOrdered /\ StackOrdered /\ TurnsTaken /\ Finished

(* SCCDetect() stacks the roots in the order of the edges.                 *)
LEMMA DetectOrdered ==
  ASSUME TypeOK, GraphOK, Shape, SCCDetect
  PROVE  Ordered'
<1>1. PICK R \in [nodes -> nodes] :
        /\ \A n \in nodes : R[R[n]] = R[n]
        /\ nodeStack' = {n \in nodes : R[n] = n}
        /\ changedReps' = nodes \ nodeStack'
        /\ merging' = {<<n, R[n]>> : n \in changedReps'}
        /\ \A p \in waveOrder' : p[1] # p[2] /\ p[2] \in nodeStack'
        /\ \A e \in edges : e.kind \in Direct =>
             R[e.src] = R[e.dst] \/ <<R[e.src], R[e.dst]>> \in waveOrder'
        /\ (pc' = "wave" /\ \A n \in nodes : R[n] = n) \/ pc' = "merge"
  BY DetectRoots
<1>2. reanalyze' = FALSE /\ edges' = edges /\ nodes' = nodes
  BY DEF SCCDetect, graphVars
<1>3. \A e \in edges : e.src \in nodes /\ e.dst \in nodes
  BY DEF GraphOK, Graph, Ends
<1>4. ASSUME NEW n \in nodes, NEW m, Goes(n, m)' PROVE m = R[n]
  <2>1. \A q \in merging' : q[1] \in changedReps' /\ q[2] = R[q[1]]
    BY <1>1
  <2>2. CASE n \in changedReps'
    <3>1. <<n, R[n]>> \in merging' /\ <<n, R[n]>>[1] = n
      BY <1>1, <2>2
    <3>2. <<n, m>> \in merging'
      BY <1>4, <3>1 DEF Goes
    <3>3. <<n, m>>[1] = n /\ <<n, m>>[2] = m
      OBVIOUS
    <3> QED
      BY <2>1, <3>2, <3>3
  <2>3. CASE n \notin changedReps'
    <3>1. <<n, m>>[1] = n /\ <<n, m>> \notin merging'
      BY <2>1, <2>3
    <3> QED
      BY <1>1, <1>4, <2>3, <3>1 DEF Goes
  <2> QED
    BY <2>2, <2>3
<1>5. MergeOrdered'
  BY <1>1, <1>2, <1>3, <1>4 DEF MergeOrdered
<1>6. EdgesOrdered'
  BY <1>1, <1>2, <1>3 DEF EdgesOrdered, Running, Shape, NoLoops
<1>7. StackOrdered'
  BY <1>1 DEF StackOrdered
<1>8. TurnsTaken'
  BY <1>1, <1>2 DEF TurnsTaken, Running
<1>9. Finished'
  BY <1>1 DEF Finished
<1> QED
  BY <1>5, <1>6, <1>7, <1>8, <1>9 DEF Ordered

(* A merge takes the edges of a node to where the order has them.          *)
LEMMA MergeKeepsOrder ==
  ASSUME TypeOK, GraphOK, Ordered, MergeSccNode
  PROVE  Ordered'
<1>1. PICK p \in merging : MergeNodeToRep(p[1], p[2], pts) /\ merging' = merging \ {p}
  BY PickSub DEF MergeSccNode
<1>2. /\ UNCHANGED <<pc, nodeStack, changedReps, waveOrder, reanalyze>> /\ pc = "merge"
      /\ edges' = MoveOutEdges(MoveInEdges(edges, p[1], p[2]), p[1], p[2])
      /\ nodes' = nodes \ {p[1]}
  BY <1>1 DEF MergeSccNode, MergeNodeToRep
<1>3. /\ p[1] \in nodes /\ p[2] \in nodes /\ p[1] # p[2] /\ p[2] \notin changedReps
      /\ \A q \in merging : q[1] \in changedReps
      /\ \A q \in merging : q[1] = p[1] => q = p
      /\ p[1] \in Node /\ p[2] \in Node /\ p = <<p[1], p[2]>>
  BY DEF GraphOK, Graph, Merges, TypeOK
<1>4. ASSUME NEW x, NEW m \in nodes, Goes(IF x = p[1] THEN p[2] ELSE x, m)' PROVE Goes(x, m)
  <2>1. CASE x = p[1]
    <3>1. m = p[2]
      <4>1. <<p[2], m>>[1] = p[2]
        OBVIOUS
      <4> QED
        BY <1>1, <1>3, <1>4, <2>1, <4>1 DEF Goes
    <3> QED
      BY <1>3, <2>1, <3>1 DEF Goes
  <2>2. CASE x # p[1]
    BY <1>1, <1>4, <2>2 DEF Goes
  <2> QED
    BY <2>1, <2>2
<1>5. ASSUME NEW g \in edges', g.kind \in Direct, NEW m \in nodes', NEW n \in nodes',
             Goes(g.src, m)', Goes(g.dst, n)'
      PROVE  m = n \/ <<m, n>> \in waveOrder'
  <2>1. PICK e \in edges : /\ g.kind = e.kind
                           /\ g.src = (IF e.src = p[1] THEN p[2] ELSE e.src)
                           /\ g.dst = (IF e.dst = p[1] THEN p[2] ELSE e.dst)
    BY <1>2, <1>3, <1>5, MovedFrom DEF TypeOK
  <2>2. m \in nodes /\ n \in nodes
    BY <1>2
  <2>3. Goes(e.src, m) /\ Goes(e.dst, n)
    BY <1>4, <1>5, <2>1, <2>2
  <2> QED
    BY <1>2, <1>5, <2>1, <2>2, <2>3 DEF Ordered, MergeOrdered
<1>6. MergeOrdered'
  BY <1>2, <1>5 DEF Ordered, MergeOrdered
<1> QED
  BY <1>2, <1>6 DEF Ordered, EdgesOrdered, StackOrdered, TurnsTaken, Finished, Running

(* Merging done, the wave starts with everything stacked.                  *)
LEMMA UpdateKeepsOrder ==
  ASSUME TypeOK, GraphOK, Shape, Ordered, UpdateReps
  PROVE  Ordered'
<1>1. /\ pc = "merge" /\ merging = {} /\ pc' = "wave"
      /\ UNCHANGED <<nodes, edges, nodeStack, waveOrder, reanalyze>>
  BY DEF UpdateReps
<1>2. \A n : Goes(n, n)
  BY <1>1 DEF Goes
<1>3. \A e \in edges : e.src \in nodes /\ e.dst \in nodes
  BY DEF GraphOK, Graph, Ends
<1>4. EdgesOrdered'
  BY <1>1, <1>2, <1>3 DEF EdgesOrdered, Ordered, MergeOrdered, Shape, NoLoops
<1>5. nodes \intersect changedReps = {}
  BY <1>1 DEF GraphOK, Graph, Merges
<1>6. StackOrdered' /\ TurnsTaken'
  BY <1>1, <1>5 DEF StackOrdered, TurnsTaken, Ordered, MergeOrdered
<1> QED
  BY <1>1, <1>4, <1>6 DEF Ordered, MergeOrdered, Finished

(* A node leaves the stack when nothing before it in the order is left.    *)
LEMMA TopFirst ==
  ASSUME NEW n \in TopOfStack
  PROVE  n \in nodeStack /\ \A m \in nodeStack : <<m, n>> \notin waveOrder
BY PickSub DEF TopOfStack

(* The turn of a node: it counts as sent all that it points to.            *)
LEMMA TurnKeepsOrder ==
  ASSUME TypeOK, CurOK, GraphOK, Ordered, ProcessNode \/ ProcessPWCNode \/ ResumePWCNode
  PROVE  Ordered'
<1>1. /\ Running /\ pc' \in {"wave", "pwc", "copygep"}
      /\ UNCHANGED <<nodes, edges, rep, pts, waveOrder, reanalyze, worklist>>
  BY DEF ProcessNode, ProcessPWCNode, ResumePWCNode, HandleCopyGep, Running, graphVars, ptVars, sccVars
<1>2. \A x : (Late(x))' = Late(x)
  BY <1>1 DEF Late
<1>3. MergeOrdered' /\ Finished' /\ EdgesOrdered'
  BY <1>1, <1>2 DEF MergeOrdered, Finished, Ordered, EdgesOrdered, Running
<1>4. CASE ProcessNode
  <2>1. PICK n \in TopOfStack : nodeStack' = nodeStack \ {n} /\ HandleCopyGep(n) /\ pc = "wave"
    BY <1>4 DEF ProcessNode
  <2>2. n \in nodeStack /\ n \in Node /\ \A m \in nodeStack : <<m, n>> \notin waveOrder
    BY <2>1, TopFirst DEF TypeOK
  <2>3. pc' \in {"wave", "copygep"} /\ (pc' = "copygep" => cur' = n)
    BY <2>1 DEF HandleCopyGep
  <2>4. ASSUME NEW q \in waveOrder PROVE q = <<q[1], q[2]>>
    BY <2>4 DEF TypeOK
  <2>5. StackOrdered'
    BY <1>1, <2>1, <2>2, <2>3, <2>4 DEF Ordered, StackOrdered
  <2>6. ASSUME NEW x \in nodes PROVE propa'[x] = propa[x] \/ (x = n /\ propa'[x] = pts[x])
    BY <2>1, <2>2 DEF HandleCopyGep, TypeOK
  <2>7. ASSUME n \in nodes PROVE propa'[n] = pts[n]
    BY <2>1, <2>2, <2>7 DEF HandleCopyGep, TypeOK, GraphOK, Graph, Reps
  <2>8. TurnsTaken'
    BY <1>1, <1>2, <2>1, <2>6, <2>7 DEF Ordered, TurnsTaken
  <2> QED
    BY <1>3, <2>5, <2>8 DEF Ordered
<1>5. CASE ProcessPWCNode
  <2>1. PICK n \in TopOfStack : nodeStack' = nodeStack \ {n} /\ cur' = n
    BY <1>5 DEF ProcessPWCNode
  <2>2. n \in nodeStack /\ \A m \in nodeStack : <<m, n>> \notin waveOrder
    BY <2>1, TopFirst
  <2>3. pc = "wave" /\ pc' = "pwc" /\ propa' = propa
    BY <1>5 DEF ProcessPWCNode, diffVars
  <2>4. ASSUME NEW q \in waveOrder PROVE q = <<q[1], q[2]>>
    BY <2>4 DEF TypeOK
  <2>5. StackOrdered'
    BY <1>1, <2>1, <2>2, <2>3, <2>4 DEF Ordered, StackOrdered
  <2>6. TurnsTaken'
    BY <1>1, <1>2, <2>1, <2>3 DEF Ordered, TurnsTaken
  <2> QED
    BY <1>3, <2>5, <2>6 DEF Ordered
<1>6. CASE ResumePWCNode
  <2>1. HandleCopyGep(cur) /\ pc = "pwc" /\ nodeStack' = nodeStack /\ cur \in Node
    BY <1>6 DEF ResumePWCNode, CurOK
  <2>2. pc' \in {"wave", "copygep"} /\ (pc' = "copygep" => cur' = cur)
    BY <2>1 DEF HandleCopyGep
  <2>3. StackOrdered'
    BY <1>1, <2>1, <2>2 DEF Ordered, StackOrdered
  <2>4. ASSUME NEW x \in nodes PROVE propa'[x] = propa[x] \/ (x = cur /\ propa'[x] = pts[x])
    BY <2>1 DEF HandleCopyGep, TypeOK
  <2>5. ASSUME cur \in nodes PROVE propa'[cur] = pts[cur]
    BY <2>1, <2>5 DEF HandleCopyGep, TypeOK, GraphOK, Graph, Reps
  <2>6. TurnsTaken'
    BY <1>1, <1>2, <2>1, <2>4, <2>5 DEF Ordered, TurnsTaken
  <2> QED
    BY <1>3, <2>3, <2>6 DEF Ordered
<1> QED
  BY <1>4, <1>5, <1>6

(* What a node sends reaches its targets before their turn.                *)
LEMMA SendKeepsOrder ==
  ASSUME TypeOK, GraphOK, Sending, Shape, Ordered, ProcessCopy \/ FinishGep
  PROVE  Ordered'
<1>1. /\ pc = "copygep" /\ pc' = pc
      /\ UNCHANGED <<nodes, edges, rep, propa, cur, nodeStack, waveOrder, reanalyze>>
  BY DEF ProcessCopy, FinishGep, graphVars, diffVars, sccVars
<1>2. PICK d, S : d \in Node /\ UnionPts(Into(d, S)) /\ \E e \in edges :
        e.kind \in Direct /\ e.src = cur /\ e.dst = d
  <2>1. CASE ProcessCopy
    <3>1. PICK e \in edgesLeft : e.kind = "copy" /\ UnionPts(Into(e.dst, diff))
      BY <2>1, PickSub DEF ProcessCopy
    <3>2. e \in edges /\ e.src = cur /\ e.dst \in Node /\ e.kind \in Direct
      BY <1>1, <3>1 DEF Shape, Handled, TypeOK, Edge, Direct
    <3> QED
      BY <3>1, <3>2
  <2>2. CASE FinishGep
    <3>1. UnionPts(Into(gep.dst, tmpDstPts)) /\ gep # None
      BY <2>2 DEF FinishGep
    <3>2. gep \in edges /\ gep.src = cur /\ gep.dst \in Node
      BY <3>1 DEF Shape, Handled, TypeOK, Edge
    <3> QED
      BY <3>1, <3>2 DEF Sending, Stages, Direct
  <2> QED
    BY <2>1, <2>2
<1>3. \A x \in Node : x # d => pts'[x] = pts[x]
  BY <1>2 DEF UnionPts, Into, TypeOK
<1>4. ~reanalyze => d \in nodeStack \/ Late(d)
  BY <1>1, <1>2 DEF Ordered, EdgesOrdered, StackOrdered, Running
<1>5. \A x : (Late(x))' = Late(x)
  BY <1>1 DEF Late
<1>6. TurnsTaken'
  BY <1>1, <1>3, <1>4, <1>5 DEF Ordered, TurnsTaken, Running, TypeOK
<1> QED
  BY <1>1, <1>5, <1>6 DEF Ordered, MergeOrdered, EdgesOrdered, StackOrdered, Finished, Running

(* The only edges made during a wave lead to fields, which may come late.  *)
LEMMA GepKeepsOrder ==
  ASSUME TypeOK, GraphOK, Ordered, GepPtd
  PROVE  Ordered'
<1>1. /\ pc = "copygep" /\ pc' = pc
      /\ UNCHANGED <<rep, propa, cur, nodeStack, waveOrder, reanalyze>>
  BY DEF GepPtd, diffVars, sccVars
<1>2. \A x : (Late(x))' = Late(x)
  BY <1>1 DEF Late
<1>3. PICK m \in ptdsLeft : GepBlkOrConst(m) \/ GepVariant(m) \/ GepNormal(m)
  BY PickSub DEF GepPtd
<1>4. /\ edges \subseteq edges'
      /\ \A e \in edges' : e \in edges \/ Late(e.dst)
      /\ \A x \in nodes' : x \in nodes \/ Late(x)
      /\ \A x \in Node : pts'[x] = pts[x] \/ Late(x)
  <2>1. CASE GepBlkOrConst(m) \/ GepVariant(m)
    BY <2>1 DEF GepBlkOrConst, GepVariant, ptVars
  <2>2. CASE GepNormal(m)
    <3> DEFINE f == GepObj(m, gep.off)
               P == IF gep.off = 0 THEN {<<Base(f), f>>} ELSE {}
               D == [n \in Node |-> UNION {pts[e.src] : e \in {g \in NewCopyEdges(P) : g.dst = n}}]
    <3>1. /\ nodes' = IF rep[f] = f THEN nodes \union {f} ELSE nodes
          /\ edges' = edges \union NewCopyEdges(P) /\ UnionPts(D)
      BY <2>2 DEF GepNormal, AddCopyEdges
    <3>2. m \in ObjNode /\ gep.off \in Nat /\ gep \in Edge
      BY <1>1 DEF TypeOK, GepPtd, Edge
    <3>3. f \in ObjNode /\ Base(f) = Base(m)
      BY <3>2, GepObjType
    <3>4. f \in Obj => f = Base(f) /\ f \in nodes \union {x : x \in {f} \ {rep[f]}}
      <4>1. f \in Obj => f = Base(f)
        BY BaseType
      <4>2. Base(m) \in Named(prog)
        BY DEF GraphOK, Facts, Fact
      <4>3. f \in Obj => rep[f] \in nodes
        BY <1>1, <3>3, <4>1, <4>2, NamedOnGraph DEF GraphOK
      <4> QED
        BY <4>1, <4>3
    <3>5. f \in Field => Late(rep[f])
      BY DEF Late
    <3>6. f \in Field \/ f \in Obj
      BY <3>3 DEF ObjNode
    <3> HIDE DEF f
    <3>7. \A e \in NewCopyEdges(P) : e.src = rep[Base(f)] /\ e.dst = rep[f] /\ e.src # e.dst
      BY DEF NewCopyEdges
    <3>8. \A e \in NewCopyEdges(P) : Late(e.dst)
      BY <3>4, <3>5, <3>6, <3>7
    <3> HIDE DEF P
    <3>9. \A x \in Node : D[x] = {} \/ Late(x)
      BY <3>8
    <3>10. \A x \in Node : pts'[x] = pts[x] \/ Late(x)
      BY <3>1, <3>9 DEF UnionPts, TypeOK
    <3>11. \A x \in nodes' : x \in nodes \/ Late(x)
      BY <3>1, <3>4, <3>5, <3>6
    <3> QED
      BY <3>1, <3>8, <3>10, <3>11
  <2> QED
    BY <1>3, <2>1, <2>2
<1>5. EdgesOrdered'
  BY <1>1, <1>2, <1>4 DEF Ordered, EdgesOrdered, Running
<1>6. TurnsTaken'
  BY <1>1, <1>2, <1>4 DEF Ordered, TurnsTaken, Running, TypeOK
<1> QED
  BY <1>1, <1>5, <1>6 DEF Ordered, MergeOrdered, StackOrdered, Finished, Running

(* Collapsing a field anyone points to asks for another round.             *)
LEMMA CollapseKeepsOrder ==
  ASSUME TypeOK, GraphOK, Shape, Ordered, CollapseOneField
  PROVE  Ordered'
<1>1. PICK f \in fieldsLeft : reanalyze' = (reanalyze \/ revPts[f] # {})
  BY PickSub DEF CollapseOneField
<1>2. reanalyze' = TRUE
  BY <1>1 DEF Shape, FieldsHeld
<1>3. UNCHANGED <<pc, cur, nodeStack, waveOrder>> /\ pc \in {"pwc", "drain"}
  BY DEF CollapseOneField, sccVars, GraphOK, Graph, Merges
<1> QED
  BY <1>2, <1>3 DEF Ordered, MergeOrdered, EdgesOrdered, StackOrdered, TurnsTaken, Finished, Running

(* Steps that read the graph, or only move on in it.                       *)
LEMMA QuietKeepsOrder ==
  ASSUME TypeOK, GraphOK, Ordered,
         ProcessGep \/ FinishCopyGep \/ CollapseNext \/ CollapseNodePts \/ FinishCollapseField
           \/ PopFromWorklist \/ UNCHANGED vars
  PROVE  Ordered'
<1>1. CASE UNCHANGED vars
  BY <1>1 DEF vars, graphVars, ptVars, diffVars, sccVars, callVars, Ordered, MergeOrdered,
    EdgesOrdered, StackOrdered, TurnsTaken, Finished, Running, Late, Goes, NewTargets
<1>2. CASE ~UNCHANGED vars
  <2>1. UNCHANGED <<nodes, edges, rep, pts, propa, nodeStack, waveOrder, reanalyze>>
    BY <1>2 DEF ProcessGep, FinishCopyGep, CollapseNext, CollapseNodePts, FinishCollapseField,
      PopFromWorklist, graphVars, ptVars, diffVars, sccVars
  <2>2. \A x : (Late(x))' = Late(x)
    BY <2>1 DEF Late
  <2>3. CASE PopFromWorklist
    <3>1. pc = "wave" /\ nodeStack = {} /\ pc' \in {"wave", "post"}
      BY <2>3 DEF PopFromWorklist, SolvePost
    <3> QED
      BY <2>1, <2>2, <3>1 DEF Ordered, MergeOrdered, EdgesOrdered, StackOrdered, TurnsTaken, Finished,
        Running
  <2>4. CASE ~PopFromWorklist
    <3>1. /\ pc \in {"copygep", "pwc", "drain"} /\ pc' \in {"copygep", "pwc", "drain", "wave"}
          /\ pc' \in {"copygep", "pwc"} => pc' = pc /\ cur' = cur
          /\ pc = "pwc" => pc' = pc
      BY <1>2, <2>4 DEF ProcessGep, FinishCopyGep, CollapseNext, CollapseNodePts, FinishCollapseField,
        GraphOK, Graph, Merges
    <3> QED
      BY <2>1, <2>2, <3>1 DEF Ordered, MergeOrdered, EdgesOrdered, StackOrdered, TurnsTaken, Finished,
        Running
  <2> QED
    BY <2>3, <2>4
<1> QED
  BY <1>1, <1>2

(* The call graph is updated between two rounds.                           *)
LEMMA BetweenRounds ==
  ASSUME Ordered, ProcessAllAddr \/ ConnectPair \/ FinishCallGraph
  PROVE  Ordered'
<1>1. pc' \in {"solve", "connect"}
  BY DEF ProcessAllAddr, ConnectPair, FinishCallGraph
<1> QED
  BY <1>1 DEF Ordered, MergeOrdered, EdgesOrdered, StackOrdered, TurnsTaken, Finished, Running

(* A load or store that makes an edge asks for another round.              *)
LEMMA EdgeKeepsOrder ==
  ASSUME TypeOK, Ordered, HandleLoad \/ HandleStore
  PROVE  Ordered'
<1>1. PICK e \in edgesLeft : HandleEdge(e) /\ pc = "post"
  BY PickSub DEF HandleLoad, HandleStore
<1>2. PICK P : AddCopyEdges(P) /\ reanalyze' = (reanalyze \/ NewCopyEdges(P) # {})
  BY <1>1 DEF HandleEdge
<1>3. /\ pc' \in {"wave", "post"} /\ nodeStack = {}
      /\ UNCHANGED <<nodes, rep, propa, nodeStack, waveOrder>>
  BY <1>1 DEF HandleEdge, sccVars, Ordered, Finished
<1>4. ~reanalyze' => ~reanalyze /\ edges' = edges /\ pts' = pts
  <2>1. SUFFICES ASSUME ~reanalyze' PROVE ~reanalyze /\ edges' = edges /\ pts' = pts
    OBVIOUS
  <2>2. NewCopyEdges(P) = {} /\ ~reanalyze
    BY <1>2, <2>1
  <2>3. edges' = edges /\ UnionPts([n \in Node |-> UNION {pts[g.src] : g \in {f \in {} : f.dst = n}}])
    BY <1>2, <2>2 DEF AddCopyEdges
  <2>4. pts' = pts
    BY <2>3 DEF UnionPts, TypeOK
  <2> QED
    BY <2>2, <2>3, <2>4
<1>5. \A x : (Late(x))' = Late(x)
  BY <1>3 DEF Late
<1>6. EdgesOrdered' /\ TurnsTaken'
  BY <1>1, <1>3, <1>4, <1>5 DEF Ordered, EdgesOrdered, TurnsTaken, Running
<1> QED
  BY <1>1, <1>3, <1>6 DEF Ordered, MergeOrdered, StackOrdered, Finished, Running

(* analyze() returns only when there is no target left to resolve, unless  *)
(* too many have been.                                                     *)
LEMMA CallsKeepOrder ==
  ASSUME TypeOK, GraphOK, Shape, Ordered, UpdateCallGraph
  PROVE  Ordered'
<1> DEFINE room == IF Cardinality(indCalls) > CallLimit THEN 0
                   ELSE CallLimit + 1 - Cardinality(indCalls)
<1>1. PICK new \in SUBSET NewTargets :
        /\ IF Cardinality(NewTargets) <= room THEN new = NewTargets ELSE Cardinality(new) = room
        /\ indCalls' = indCalls \union new
        /\ edges' = edges \union NewCopyEdges(UNION {c.flow : c \in new})
        /\ pc' = IF new # {} THEN "connect" ELSE IF reanalyze THEN "solve" ELSE "done"
  BY DEF UpdateCallGraph
<1>2. /\ pc = "wave" /\ nodeStack = {} /\ worklist = {}
      /\ UNCHANGED <<prog, nodes, rep, pts, propa, worklist, nodeStack, waveOrder, reanalyze>>
  BY DEF UpdateCallGraph, SolvePost, ptVars, diffVars, sccVars
<1>3. CASE pc' # "done"
  <2>1. pc' \in {"solve", "connect"}
    BY <1>1, <1>3
  <2> QED
    BY <2>1 DEF Ordered, MergeOrdered, EdgesOrdered, StackOrdered, TurnsTaken, Finished, Running
<1>4. CASE pc' = "done"
  <2>1. new = {} /\ ~reanalyze
    BY <1>1, <1>4
  <2>2. edges' = edges /\ indCalls' = indCalls
    <3>1. NewCopyEdges(UNION {c.flow : c \in new}) = {}
      BY <2>1 DEF NewCopyEdges
    <3> QED
      BY <1>1, <2>1, <3>1
  <2>3. NewTargets' = NewTargets
    BY <1>2, <2>2 DEF NewTargets
  <2>4. IsFiniteSet(prog.icalls)
    BY ProgramAssumption DEF Shape
  <2>5. IsFiniteSet(NewTargets) /\ IsFiniteSet(indCalls)
    BY <2>4, FS_Subset DEF NewTargets, TypeOK
  <2>6. Cardinality(indCalls) \in Nat /\ Cardinality(NewTargets) \in Nat
    BY <2>5, FS_CardinalityType
  <2>7. Cardinality(new) = 0
    BY <2>1, FS_EmptySet
  <2>8. Cardinality(indCalls) <= CallLimit => NewTargets = {}
    <3>1. SUFFICES ASSUME Cardinality(indCalls) <= CallLimit PROVE NewTargets = {}
      OBVIOUS
    <3>2. room >= 1
      BY <2>6, <3>1, CallLimitAssumption
    <3> QED
      BY <1>1, <2>1, <2>6, <2>7, <3>2
  <2>9. \A x : (Late(x))' = Late(x)
    BY <1>2 DEF Late
  <2> QED
    BY <1>2, <1>4, <2>1, <2>2, <2>3, <2>8, <2>9 DEF Ordered, MergeOrdered, EdgesOrdered, StackOrdered,
      TurnsTaken, Finished, Running
<1> QED
  BY <1>3, <1>4

(* Every step keeps part two.                                              *)
LEMMA StepOrdered ==
  ASSUME TypeOK, CurOK, GraphOK, Sending, Shape, Ordered, [Next]_vars
  PROVE  Ordered'
BY DetectOrdered, MergeKeepsOrder, UpdateKeepsOrder, TurnKeepsOrder, SendKeepsOrder, GepKeepsOrder,
   CollapseKeepsOrder, QuietKeepsOrder, BetweenRounds, EdgeKeepsOrder, CallsKeepOrder DEF Next, Terminated

(* The first round is still to come.                                       *)
LEMMA InitOrdered == Init => Ordered
BY DEF Init, Ordered, MergeOrdered, EdgesOrdered, StackOrdered, TurnsTaken, Finished, Running
-----------------------------------------------------------------------------
(* Part three: what is to be copied has an edge, under any later names.    *)
Linking ==
  /\ \A e \in prog.edges : e.kind = "copy" => Joined(Now(e.src), Now(e.dst))
  /\ \A c \in indCalls : \A f \in c.flow : Joined(Now(f[1]), Now(f[2]))

(* The ends of statements and calls are variables of the program.          *)
LEMMA StatementEnds ==
  ASSUME TypeOK, Shape
  PROVE  /\ \A e \in prog.edges : /\ e \in Edge /\ e.src \in Named(prog) /\ e.dst \in Named(prog)
                                  /\ e.src \in Ptr /\ e.dst \in Ptr
         /\ \A c \in prog.icalls : \A f \in c.flow : /\ f[1] \in Named(prog) /\ f[2] \in Named(prog)
                                                     /\ f[1] \in Ptr /\ f[2] \in Ptr
<1>1. prog \in Program
  BY DEF TypeOK
<1>2. ASSUME NEW e \in prog.edges
      PROVE  /\ e \in Edge /\ e.src \in Named(prog) /\ e.dst \in Named(prog)
             /\ e.src \in Ptr /\ e.dst \in Ptr
  <2>1. e \in Edge /\ e.src \in Ptr /\ e.dst \in Ptr
    BY <1>1, StatementAssumption DEF Shape, Program
  <2>2. Base(e.src) = e.src /\ Base(e.dst) = e.dst
    BY <2>1, BaseType
  <2> QED
    BY <2>1, <2>2 DEF Named
<1>3. ASSUME NEW c \in prog.icalls, NEW f \in c.flow
      PROVE  /\ f[1] \in Named(prog) /\ f[2] \in Named(prog)
             /\ f[1] \in Ptr /\ f[2] \in Ptr
  <2>1. f \in Ptr \X Ptr
    BY <1>1 DEF Program
  <2> QED
    BY <2>1 DEF Named
<1> QED
  BY <1>2, <1>3

(* A requested copy edge exists afterwards, unless both ends are one node. *)
LEMMA AskedJoined ==
  ASSUME NEW P, NEW p \in P, rep' = rep, edges' = edges \union NewCopyEdges(P)
  PROVE  (Joined(rep[p[1]], rep[p[2]]))'
<1> DEFINE e == [kind |-> "copy", src |-> rep[p[1]], dst |-> rep[p[2]], off |-> 0]
<1>1. e.src # e.dst /\ ~HasEdge(edges, "copy", e.src, e.dst) => e \in edges'
  BY DEF NewCopyEdges
<1>2. e.kind = "copy" /\ e.src = rep[p[1]] /\ e.dst = rep[p[2]]
  OBVIOUS
<1> HIDE DEF e
<1>3. HasEdge(edges, "copy", e.src, e.dst) => HasEdge(edges', "copy", e.src, e.dst)
  BY DEF HasEdge
<1>4. e \in edges' => HasEdge(edges', "copy", e.src, e.dst)
  BY <1>2 DEF HasEdge
<1> QED
  BY <1>1, <1>2, <1>3, <1>4 DEF Joined

(* At first every copy statement is an edge, and no call is resolved.      *)
LEMMA InitLinking == Init => Linking
<1> SUFFICES ASSUME Init PROVE Linking
  OBVIOUS
<1>1. Ptr \subseteq Node /\ prog \in Programs /\ \A n \in Node : Now(n) = n
  BY DEF Init, Node, Now
<1>2. ASSUME NEW e \in prog.edges, e.kind = "copy" PROVE Joined(Now(e.src), Now(e.dst))
  <2>1. Now(e.src) = e.src /\ Now(e.dst) = e.dst
    BY <1>1, StatementAssumption
  <2> QED
    BY <1>2, <2>1 DEF Init, Joined, HasEdge
<1> QED
  BY <1>2 DEF Init, Linking

(* Resolving a call connects it; everything else stays connected.          *)
LEMMA StepLinking ==
  ASSUME TypeOK, GraphOK, Shape, Linking, [Next]_vars
  PROVE  Linking'
<1>1. prog' = prog
  BY SameProgram
<1>2. Ptr \subseteq Node
  BY DEF Node
<1>3. ASSUME NEW e \in prog.edges, e.kind = "copy" PROVE (Joined(Now(e.src), Now(e.dst)))'
  <2>1. e.src \in Node /\ e.dst \in Node /\ Joined(Now(e.src), Now(e.dst))
    BY <1>2, <1>3, StatementEnds DEF Linking
  <2> QED
    BY <2>1, StaysJoined
<1>4. ASSUME NEW c \in indCalls', NEW f \in c.flow PROVE (Joined(Now(f[1]), Now(f[2])))'
  <2>1. CASE c \in indCalls
    <3>1. f[1] \in Node /\ f[2] \in Node /\ Joined(Now(f[1]), Now(f[2]))
      BY <1>2, <2>1, StatementEnds DEF Linking, TypeOK
    <3> QED
      BY <3>1, StaysJoined
  <2>2. CASE c \notin indCalls
    <3>1. UpdateCallGraph
      BY <2>2 DEF Next, vars, callVars, ProcessAllAddr, SCCDetect, MergeSccNode, UpdateReps,
        ProcessNode, ProcessPWCNode, ResumePWCNode, ProcessCopy, ProcessGep, GepPtd, FinishGep,
        FinishCopyGep, CollapseNext, CollapseNodePts, CollapseOneField, FinishCollapseField,
        PopFromWorklist, HandleLoad, HandleStore, HandleEdge, ConnectPair, FinishCallGraph, Terminated
    <3>2. PICK new \in SUBSET NewTargets :
            /\ indCalls' = indCalls \union new
            /\ edges' = edges \union NewCopyEdges(UNION {d.flow : d \in new})
      BY <3>1 DEF UpdateCallGraph
    <3>3. c \in new /\ c \in prog.icalls /\ rep' = rep /\ pc = "wave"
      BY <2>2, <3>1, <3>2 DEF UpdateCallGraph, SolvePost, NewTargets
    <3>4. f \in UNION {d.flow : d \in new}
      BY <3>3
    <3>5. (Joined(rep[f[1]], rep[f[2]]))'
      BY <3>2, <3>3, <3>4, AskedJoined
    <3>6. rep[f[1]] \in nodes /\ rep[f[2]] \in nodes
      BY <3>3, StatementEnds, NamedOnGraph DEF GraphOK
    <3>7. rep[rep[f[1]]] = rep[f[1]] /\ rep[rep[f[2]]] = rep[f[2]]
      BY <3>6 DEF GraphOK, Graph, Reps
    <3>8. rep'[rep'[f[1]]] = rep'[f[1]] /\ rep'[rep'[f[2]]] = rep'[f[2]]
      BY <3>3, <3>7
    <3> QED
      BY <3>5, <3>8 DEF Now
  <2> QED
    BY <2>1, <2>2
<1> QED
  BY <1>1, <1>3, <1>4 DEF Linking

(* The inductive invariant.                                                *)
LEMMA ResultInvariant == Spec => [](Shape /\ Ordered /\ Linking)
<1>1. Init => Shape /\ Ordered /\ Linking
  BY InitShape, InitOrdered, InitLinking
<1>2. /\ TypeOK /\ CurOK /\ GraphOK /\ GraphOK' /\ Sending
      /\ Shape /\ Ordered /\ Linking /\ [Next]_vars
      => (Shape /\ Ordered /\ Linking)'
  BY StepShape, StepOrdered, StepLinking
<1> QED
  BY <1>1, <1>2, TypeCorrect, GraphInvariant, SendingInvariant, PTL DEF Spec
-----------------------------------------------------------------------------
(* At the end an edge whose source did not come late has passed all on.    *)
LEMMA EdgePassed ==
  ASSUME TypeOK, GraphOK, Sending, Ordered, pc = "done",
         NEW e \in edges, e.kind \in Direct, ~Late(e.src), NEW o \in pts[e.src]
  PROVE  Arrives(fieldInsensitive, pts[e.dst], e, o)
<1>1. e.src \in nodes /\ e \in Edge
  BY DEF GraphOK, Graph, Ends, TypeOK
<1>2. o \in propa[e.src]
  BY <1>1 DEF Ordered, TurnsTaken, Finished, Running
<1>3. Delivered(e)
  BY DEF Sending, AllSent, Stages, Pending
<1>4. Unsent(e) = {} /\ Reached(e) = pts[e.dst]
  BY <1>1, NothingUnsent DEF Sending, Settled
<1> QED
  BY <1>2, <1>3, <1>4 DEF Delivered

(* So has a copy between whatever two nodes it ended up.                   *)
LEMMA JoinedPassed ==
  ASSUME TypeOK, GraphOK, Sending, Ordered, pc = "done", NEW m, NEW n,
         Joined(rep[m], rep[n]), ~Mixed(m)
  PROVE  Passed(m, n)
<1>1. SUFFICES ASSUME NEW o \in pts[rep[m]] PROVE Holds(rep[n], o)
  BY DEF Passed, Pt
<1>2. CASE rep[m] = rep[n]
  BY <1>1, <1>2 DEF Holds
<1>3. CASE HasEdge(edges, "copy", rep[m], rep[n])
  <2>1. PICK e \in edges : e.kind = "copy" /\ e.src = rep[m] /\ e.dst = rep[n]
    BY <1>3 DEF HasEdge
  <2>2. ~Late(e.src) /\ e.kind \in Direct
    BY <2>1 DEF Mixed, Late, Direct
  <2>3. Arrives(fieldInsensitive, pts[e.dst], e, o)
    BY <1>1, <2>1, <2>2, EdgePassed
  <2> QED
    BY <2>1, <2>3 DEF Arrives, Held, Holds
<1> QED
  BY <1>2, <1>3 DEF Joined

(* When no cycle is being merged, a node has one name.                     *)
LEMMA NowIsRep ==
  ASSUME TypeOK, GraphOK, pc # "merge", NEW x \in Named(prog)
  PROVE  Now(x) = rep[x]
BY NamedOnGraph DEF GraphOK, Graph, Reps, Now

(* Every copy of the program, and every copy found, is satisfied in the    *)
(* result, unless its source shares its node with a field.                 *)
THEOREM CopiesComplete == Spec => []CopiesSatisfied
<1>1. TypeOK /\ GraphOK /\ Sending /\ Shape /\ Ordered /\ Linking => CopiesSatisfied
  <2> SUFFICES ASSUME TypeOK, GraphOK, Sending, Shape, Ordered, Linking, pc = "done",
                      NEW e \in prog.edges \union edges, e.kind = "copy", ~Mixed(e.src)
               PROVE  Passed(e.src, e.dst)
    BY DEF CopiesSatisfied
  <2>1. CASE e \in prog.edges
    <3>1. Joined(Now(e.src), Now(e.dst)) /\ e.src \in Named(prog) /\ e.dst \in Named(prog)
      BY <2>1, StatementEnds DEF Linking
    <3> QED
      BY <3>1, NowIsRep, JoinedPassed
  <2>2. CASE e \in edges
    <3>1. rep[e.src] = e.src /\ rep[e.dst] = e.dst
      BY <2>2 DEF GraphOK, Graph, Ends, Reps
    <3>2. Joined(rep[e.src], rep[e.dst])
      BY <2>2, <3>1 DEF Joined, HasEdge
    <3> QED
      BY <3>2, JoinedPassed
  <2> QED
    BY <2>1, <2>2
<1> QED
  BY <1>1, TypeCorrect, GraphInvariant, SendingInvariant, ResultInvariant, PTL

(* Unless the limit stopped the resolution, every function a pointer may   *)
(* call gets its arguments and gives back its result.                      *)
THEOREM CallsComplete == Spec => []CallsSatisfied
<1>1. TypeOK /\ GraphOK /\ Sending /\ Shape /\ Ordered /\ Linking => CallsSatisfied
  <2> SUFFICES ASSUME TypeOK, GraphOK, Sending, Shape, Ordered, Linking, pc = "done",
                      Cardinality(indCalls) <= CallLimit,
                      NEW c \in prog.icalls, c.fun \in Pt(c.fp), NEW f \in c.flow, ~Mixed(f[1])
               PROVE  Passed(f[1], f[2])
    BY DEF CallsSatisfied
  <2>1. c \in indCalls
    BY DEF Ordered, Finished, NewTargets, Pt
  <2>2. Joined(Now(f[1]), Now(f[2])) /\ f[1] \in Named(prog) /\ f[2] \in Named(prog)
    BY <2>1, StatementEnds DEF Linking
  <2> QED
    BY <2>2, NowIsRep, JoinedPassed
<1> QED
  BY <1>1, TypeCorrect, GraphInvariant, SendingInvariant, ResultInvariant, PTL
-----------------------------------------------------------------------------
(* Part four: statements of unmerged pointers.  A node that never took     *)
(* part in a merge keeps its edges; e is a load or store, its pointer the  *)
(* end it dereferences.                                                    *)
Alone(n) == rep[n] = n /\ subs[n] = {n}
Complex == {"load", "store"}
Pointer(e) == IF e.kind = "load" THEN e.src ELSE e.dst
Wired(E, e) == IF e.kind = "load" THEN HasEdge(E, "load", e.src, Now(e.dst))
                                  ELSE HasEdge(E, "store", Now(e.src), e.dst)
Met(o, e) == IF e.kind = "load" THEN Joined(Now(o), Now(e.dst)) ELSE Joined(Now(e.src), Now(o))

EdgesKept == \A e \in prog.edges :
  /\ e.kind \in {"ngep", "vgep"} /\ Alone(e.src) /\ Alone(e.dst) => e \in edges
  /\ e.kind \in Complex /\ Alone(Pointer(e)) => Wired(edges, e)

(* A pointee without its copy edge: the pointer is queued, or in hand.     *)
Due(e) == \/ Pointer(e) \in worklist
          \/ pc = "post" /\ cur = Pointer(e) /\ Wired(edgesLeft, e)
PointeesServed ==
  /\ pc = "addr" => worklist = {}
  /\ \A e \in prog.edges : e.kind \in Complex /\ Alone(Pointer(e)) =>
       Due(e) \/ \A o \in pts[Pointer(e)] : Skipped(o) \/ Met(o, e)

(* Whom the reverse map names did point to the field, and still does,      *)
(* unless it was collapsed.                                                *)
HoldersTrue == \A f \in Field : \A x \in revPts[f] : Holds(Now(x), f)

(* Outside of a merge every node has one name.                             *)
LEMMA OneName ==
  ASSUME TypeOK, GraphOK, pc # "merge", NEW x \in Node
  PROVE  Now(x) = rep[x]
<1>1. CASE rep[x] = x
  BY <1>1 DEF Now
<1>2. CASE rep[x] # x
  <2>1. Resolved(x) /\ changedReps = {}
    BY <1>2 DEF GraphOK, Graph, Reps, Merges
  <2> QED
    BY <2>1 DEF GraphOK, Graph, Reps, Resolved, Now
<1> QED
  BY <1>1, <1>2

(* Whoever is alone after a step was alone before it, and its points-to    *)
(* set is not that of a merge.                                             *)
LEMMA AloneBefore ==
  ASSUME TypeOK, GraphOK, [Next]_vars, NEW x \in Node, (Alone(x))'
  PROVE  Alone(x)
<1> USE DEF graphVars
<1>1. CASE MergeSccNode
  <2>1. PICK n \in nodes, r \in nodes :
          n # r /\ rep' = [rep EXCEPT ![n] = r] /\ subs' = [subs EXCEPT ![r] = @ \union {n}]
    BY <1>1, SccMoves
  <2>2. /\ rep \in [Node -> Node] /\ subs \in [Node -> SUBSET Node]
        /\ rep'[x] = x /\ subs'[x] = {x}
    BY DEF Alone, TypeOK
  <2>3. x # n
    BY <2>1, <2>2
  <2>4. ASSUME x = r PROVE n \in subs'[x]
    BY <2>1, <2>2, <2>4
  <2>5. x # r
    BY <2>1, <2>2, <2>4
  <2> QED
    BY <2>1, <2>2, <2>3, <2>5 DEF Alone
<1>2. CASE CollapseOneField
  <2>1. PICK f \in fieldsLeft : MergeField(rep[f], rep[collapsing], Redirected(f))
    BY <1>2, PickSub DEF CollapseOneField
  <2>2. CASE rep[f] = rep[collapsing]
    BY <2>1, <2>2 DEF MergeField, Alone
  <2>3. CASE rep[f] # rep[collapsing]
    <3>1. /\ rep' = [n \in Node |-> IF n = rep[f] \/ n \in subs[rep[f]] THEN rep[collapsing] ELSE rep[n]]
          /\ subs' = [subs EXCEPT ![rep[collapsing]] = @ \union {rep[f]} \union subs[rep[f]]]
      BY <2>1, <2>3 DEF MergeField
    <3>2. rep[collapsing] \in Node
      BY <1>2 DEF CollapseOneField, TypeOK, Node, ObjNode
    <3>3. subs \in [Node -> SUBSET Node] /\ subs'[x] = {x}
      BY DEF Alone, TypeOK
    <3>4. ASSUME x = rep[collapsing] PROVE rep[f] \in subs'[x]
      BY <3>1, <3>2, <3>3, <3>4
    <3>5. x # rep[collapsing]
      BY <2>3, <3>3, <3>4
    <3> QED
      BY <3>1, <3>5 DEF Alone, TypeOK
  <2> QED
    BY <2>2, <2>3
<1>3. CASE UpdateReps
  <2>1. \A c \in changedReps : c \notin nodes /\ rep[c] \in nodes
    BY <1>3 DEF UpdateReps, GraphOK, Graph, Merges
  <2>2. rep'[x] = rep[x] \/ \E c \in changedReps : x \in subs[c] /\ rep'[x] = rep[c]
    BY <1>3 DEF UpdateReps
  <2>3. rep[x] = x
    BY <2>1, <2>2 DEF Alone, GraphOK, Graph, Reps
  <2>4. x \in subs[x] /\ subs[x] \subseteq subs'[x]
    BY <1>3, <2>3 DEF UpdateReps, GraphOK, Graph, Reps
  <2> QED
    BY <2>3, <2>4 DEF Alone
<1>4. CASE ~(MergeSccNode \/ CollapseOneField \/ UpdateReps)
  <2>1. rep' = rep /\ subs' = subs
    BY <1>4, ElsewhereSame DEF Next, Elsewhere, GepPtd, HandleLoad, HandleStore, HandleEdge,
      UpdateCallGraph, Terminated
  <2> QED
    BY <2>1 DEF Alone
<1> QED
  BY <1>1, <1>2, <1>3, <1>4

(* A merge leaves alone the edges between other nodes.                     *)
LEMMA MoveOthers ==
  ASSUME NEW E, NEW n, NEW r, NEW e \in E, e.src # n, e.dst # n
  PROVE  e \in MoveOutEdges(MoveInEdges(E, n, r), n, r)
BY DEF MoveInEdges, MoveOutEdges

(* A load or store of another node keeps an edge of its kind.              *)
LEMMA MoveComplex ==
  ASSUME NEW E \in SUBSET Edge, NEW n \in Node, NEW r \in Node, NEW k \in Complex, n # r,
         NEW i \in Node, NEW j \in Node, HasEdge(E, k, i, j), i # n \/ j # n
  PROVE  HasEdge(MoveOutEdges(MoveInEdges(E, n, r), n, r), k, To(n, r, i), To(n, r, j))
<1> DEFINE F == MoveInEdges(E, n, r)
<1>1. \A e \in Edge : /\ [e EXCEPT !.dst = r].src = e.src /\ [e EXCEPT !.dst = r].dst = r
                      /\ [e EXCEPT !.dst = r].kind = e.kind
                      /\ [e EXCEPT !.src = r].src = r /\ [e EXCEPT !.src = r].dst = e.dst
                      /\ [e EXCEPT !.src = r].kind = e.kind
  BY DEF Edge
<1>2. F \subseteq Edge
  BY MoveEdgesType
<1>3. k \notin Direct
  BY DEF Complex, Direct
<1>4. PICK e \in E : e.kind = k /\ e.src = i /\ e.dst = j
  BY DEF HasEdge
<1>5. CASE j = n
  <2>1. HasEdge(F, k, i, r) /\ i # n
    <3>1. CASE HasEdge(E, k, i, r)
      <4>1. PICK d \in E : d.kind = k /\ d.src = i /\ d.dst = r
        BY <3>1 DEF HasEdge
      <4>2. CASE r # n
        <5>1. d \in F
          BY <4>1, <4>2 DEF MoveInEdges
        <5> QED
          BY <1>5, <4>1, <5>1 DEF HasEdge
      <4> QED
        BY <1>5, <4>2
    <3>2. CASE ~HasEdge(E, k, i, r)
      <4>1. [e EXCEPT !.dst = r] \in F
        BY <1>3, <1>4, <1>5, <3>2 DEF MoveInEdges
      <4> QED
        BY <1>1, <1>4, <1>5, <4>1 DEF HasEdge
    <3> QED
      BY <3>1, <3>2
  <2>2. PICK d \in F : d.kind = k /\ d.src = i /\ d.dst = r
    BY <2>1 DEF HasEdge
  <2> HIDE DEF F
  <2>3. d \in MoveOutEdges(F, n, r)
    BY <2>1, <2>2 DEF MoveOutEdges
  <2> QED
    BY <1>5, <2>1, <2>2, <2>3 DEF HasEdge, To, F
<1>6. CASE j # n
  <2>1. e \in F
    BY <1>4, <1>6 DEF MoveInEdges
  <2> HIDE DEF F
  <2>2. CASE i # n
    <3>1. e \in MoveOutEdges(F, n, r)
      BY <1>4, <2>1, <2>2 DEF MoveOutEdges
    <3> QED
      BY <1>4, <1>6, <2>2, <3>1 DEF HasEdge, To, F
  <2>3. CASE i = n
    <3>1. HasEdge(MoveOutEdges(F, n, r), k, r, j)
      <4>1. CASE HasEdge(F, k, r, j)
        <5>1. PICK d \in F : d.kind = k /\ d.src = r /\ d.dst = j
          BY <4>1 DEF HasEdge
        <5>2. d \in MoveOutEdges(F, n, r)
          BY <5>1 DEF MoveOutEdges
        <5> QED
          BY <5>1, <5>2 DEF HasEdge
      <4>2. CASE ~HasEdge(F, k, r, j)
        <5>1. [e EXCEPT !.src = r] \in MoveOutEdges(F, n, r)
          BY <1>3, <1>4, <2>1, <2>3, <4>2 DEF MoveOutEdges
        <5> QED
          BY <1>1, <1>2, <1>4, <2>1, <5>1 DEF HasEdge
      <4> QED
        BY <4>1, <4>2
    <3> QED
      BY <1>6, <2>3, <3>1 DEF To, F
  <2> QED
    BY <2>2, <2>3
<1> QED
  BY <1>5, <1>6

(* Nobody is alone who took part in a merge.                               *)
LEMMA AloneApart ==
  ASSUME TypeOK, GraphOK, NEW n \in nodes, NEW r \in nodes, n # r, n \in subs'[r],
         \A x \in Node : (Now(x))' = To(n, r, Now(x))
  PROVE  \A x \in Node : (Alone(x))' => x # n /\ x # r
<1> SUFFICES ASSUME NEW x \in Node, (Alone(x))' PROVE x # n /\ x # r
  OBVIOUS
<1>1. rep'[x] = x /\ subs'[x] = {x} /\ (Now(x))' = x
  BY DEF Alone, Now
<1>2. n \in Node /\ Now(n) = n
  BY DEF TypeOK, GraphOK, Graph, Reps, Now
<1>3. (Now(n))' = r
  BY <1>2 DEF To
<1> QED
  BY <1>1, <1>3

(* What a step does to names: nothing, or it merges two nodes.             *)
LEMMA StepMoves ==
  ASSUME TypeOK, GraphOK, [Next]_vars
  PROVE  \/ edges \subseteq edges' /\ \A x \in Node : (Now(x))' = Now(x)
         \/ \E n, r \in nodes : \E P :
              /\ n # r /\ MergeNodeToRep(n, r, P)
              /\ \A x \in Node : (Now(x))' = To(n, r, Now(x))
              /\ \A x \in Node : (Alone(x))' => x # n /\ x # r
<1> USE DEF graphVars
<1>1. CASE MergeSccNode
  <2>1. PICK n \in nodes, r \in nodes :
          /\ n # r /\ MergeNodeToRep(n, r, pts)
          /\ subs' = [subs EXCEPT ![r] = @ \union {n}]
          /\ \A x \in Node : (Now(x))' = To(n, r, Now(x))
    BY <1>1, SccMoves
  <2>2. n \in subs'[r]
    BY <2>1 DEF TypeOK
  <2> QED
    BY <2>1, <2>2, AloneApart
<1>2. CASE CollapseOneField
  <2>1. PICK f \in fieldsLeft :
          \/ UNCHANGED graphVars
          \/ /\ rep[f] \in nodes /\ rep[collapsing] \in nodes /\ rep[f] # rep[collapsing]
             /\ MergeNodeToRep(rep[f], rep[collapsing], Redirected(f))
             /\ subs' = [subs EXCEPT ![rep[collapsing]] = @ \union {rep[f]} \union subs[rep[f]]]
             /\ \A x \in Node : (Now(x))' = To(rep[f], rep[collapsing], Now(x))
    BY <1>2, FieldMoves
  <2>2. CASE UNCHANGED graphVars
    BY <2>2 DEF Now
  <2>3. CASE ~UNCHANGED graphVars
    <3>1. rep[f] \in subs'[rep[collapsing]]
      BY <2>1, <2>3 DEF TypeOK
    <3> QED
      BY <2>1, <2>3, <3>1, AloneApart
  <2> QED
    BY <2>2, <2>3
<1>3. CASE UpdateReps
  BY <1>3, UpdateMoves DEF UpdateReps
<1>4. CASE ~(MergeSccNode \/ CollapseOneField \/ UpdateReps)
  <2>1. rep' = rep
    BY <1>4, ElsewhereSame DEF Next, Elsewhere, GepPtd, HandleLoad, HandleStore, HandleEdge,
      UpdateCallGraph, Terminated
  <2> QED
    BY <1>4, <2>1, NewEdges DEF Now
<1> QED
  BY <1>1, <1>2, <1>3, <1>4

(* Both ends of a statement are nodes.                                     *)
LEMMA StatementNodes ==
  ASSUME TypeOK, Shape, NEW e \in prog.edges
  PROVE  e \in Edge /\ e.src \in Node /\ e.dst \in Node /\ Pointer(e) \in Node
BY StatementEnds DEF Node, Pointer

(* A statement of unmerged pointers keeps its edge.                        *)
LEMMA StepEdgesKept ==
  ASSUME TypeOK, GraphOK, Shape, EdgesKept, [Next]_vars
  PROVE  EdgesKept'
<1>1. prog' = prog
  BY SameProgram
<1>2. SUFFICES ASSUME NEW e \in prog.edges
               PROVE  /\ e.kind \in {"ngep", "vgep"} /\ (Alone(e.src))' /\ (Alone(e.dst))' => e \in edges'
                      /\ e.kind \in Complex /\ (Alone(Pointer(e)))' => (Wired(edges, e))'
  BY <1>1 DEF EdgesKept
<1>3. e \in Edge /\ e.src \in Node /\ e.dst \in Node /\ Pointer(e) \in Node
  BY StatementNodes
<1>4. Now(e.src) \in Node /\ Now(e.dst) \in Node
  BY <1>3 DEF Now, TypeOK
<1>5. \A x \in Node : (Alone(x))' => Alone(x)
  BY AloneBefore
<1>6. CASE edges \subseteq edges' /\ \A x \in Node : (Now(x))' = Now(x)
  <2>1. ASSUME e.kind \in {"ngep", "vgep"}, (Alone(e.src))', (Alone(e.dst))' PROVE e \in edges'
    BY <1>3, <1>5, <1>6, <2>1 DEF EdgesKept
  <2>2. ASSUME e.kind \in Complex, (Alone(Pointer(e)))' PROVE (Wired(edges, e))'
    <3>1. Wired(edges, e)
      BY <1>3, <1>5, <2>2 DEF EdgesKept
    <3>2. (Now(e.src))' = Now(e.src) /\ (Now(e.dst))' = Now(e.dst)
      BY <1>3, <1>6
    <3> QED
      BY <1>6, <3>1, <3>2 DEF Wired, HasEdge
  <2> QED
    BY <2>1, <2>2
<1>7. CASE \E n, r \in nodes : \E P :
              /\ n # r /\ MergeNodeToRep(n, r, P)
              /\ \A x \in Node : (Now(x))' = To(n, r, Now(x))
              /\ \A x \in Node : (Alone(x))' => x # n /\ x # r
  <2>1. PICK n \in nodes, r \in nodes :
              /\ n # r /\ \E P : MergeNodeToRep(n, r, P)
              /\ \A x \in Node : (Now(x))' = To(n, r, Now(x))
              /\ \A x \in Node : (Alone(x))' => x # n /\ x # r
    BY <1>7
  <2>2. edges' = MoveOutEdges(MoveInEdges(edges, n, r), n, r)
    BY <2>1 DEF MergeNodeToRep
  <2>3. ASSUME e.kind \in {"ngep", "vgep"}, (Alone(e.src))', (Alone(e.dst))' PROVE e \in edges'
    <3>1. e \in edges /\ e.src # n /\ e.dst # n
      BY <1>3, <1>5, <2>1, <2>3 DEF EdgesKept
    <3> QED
      BY <2>2, <3>1, MoveOthers
  <2>4. ASSUME e.kind \in Complex, (Alone(Pointer(e)))' PROVE (Wired(edges, e))'
    <3>1. Wired(edges, e) /\ Pointer(e) # n
      BY <1>3, <1>5, <2>1, <2>4 DEF EdgesKept
    <3>2. n \in Node /\ r \in Node /\ edges \in SUBSET Edge
      BY DEF TypeOK
    <3>3. (Now(e.src))' = To(n, r, Now(e.src)) /\ (Now(e.dst))' = To(n, r, Now(e.dst))
      BY <1>3, <2>1
    <3>4. CASE e.kind = "load"
      <4>1. HasEdge(edges, "load", e.src, Now(e.dst)) /\ e.src # n
        BY <3>1, <3>4 DEF Wired, Pointer
      <4>2. HasEdge(edges', "load", To(n, r, e.src), To(n, r, Now(e.dst)))
        BY <1>3, <1>4, <2>1, <2>2, <3>2, <4>1, MoveComplex DEF Complex
      <4>3. HasEdge(edges', "load", e.src, (Now(e.dst))')
        BY <3>3, <4>1, <4>2 DEF To
      <4> QED
        BY <3>4, <4>3 DEF Wired
    <3>5. CASE e.kind = "store"
      <4>1. HasEdge(edges, "store", Now(e.src), e.dst) /\ e.dst # n
        BY <3>1, <3>5 DEF Wired, Pointer
      <4>2. HasEdge(edges', "store", To(n, r, Now(e.src)), To(n, r, e.dst))
        BY <1>3, <1>4, <2>1, <2>2, <3>2, <4>1, MoveComplex DEF Complex
      <4>3. HasEdge(edges', "store", (Now(e.src))', e.dst)
        BY <3>3, <4>1, <4>2 DEF To
      <4> QED
        BY <3>5, <4>3 DEF Wired
    <3> QED
      BY <2>4, <3>4, <3>5 DEF Complex
  <2> QED
    BY <2>3, <2>4
<1> QED
  BY <1>6, <1>7, StepMoves
-----------------------------------------------------------------------------
(* The reverse map.                                                        *)

(* unionPts() into nodes of the graph makes true holders.                  *)
LEMMA HoldersUnion ==
  ASSUME TypeOK, HoldersTrue, rep' = rep, fieldInsensitive \subseteq fieldInsensitive',
         NEW D, UnionPts(D), \A x \in Node : D[x] \intersect Field # {} => Now(x) = x
  PROVE  HoldersTrue'
<1>1. SUFFICES ASSUME NEW f \in Field, NEW x \in revPts'[f] PROVE (Holds(Now(x), f))'
  BY DEF HoldersTrue
<1>2. f \in ObjNode /\ (x \in revPts[f] \/ (x \in Node /\ f \in D[x]))
  BY <1>1 DEF UnionPts, ObjNode
<1>3. \A y \in Node : pts[y] \subseteq pts'[y] /\ D[y] \subseteq pts'[y]
  BY DEF UnionPts
<1>4. (Now(x))' = Now(x)
  BY DEF Now
<1>5. CASE x \in revPts[f]
  <2>1. Holds(Now(x), f) /\ Now(x) \in Node
    BY <1>2, <1>5 DEF HoldersTrue, Now, TypeOK
  <2> QED
    BY <1>3, <1>4, <2>1 DEF Holds
<1>6. CASE x \in Node /\ f \in D[x]
  <2>1. Now(x) = x
    BY <1>6
  <2> QED
    BY <1>3, <1>4, <1>6, <2>1 DEF Holds
<1> QED
  BY <1>2, <1>5, <1>6

(* So does a merge, if no fact gets lost on the way.                       *)
LEMMA HoldersMerge ==
  ASSUME TypeOK, HoldersTrue, fieldInsensitive' = fieldInsensitive,
         NEW n \in nodes, NEW r \in nodes, n # r, rep[r] = r,
         NEW P \in [Node -> SUBSET ObjNode], MergeNodeToRep(n, r, P),
         \A y \in Node : \A f \in Field :
           Held(fieldInsensitive, pts[y], f) => Held(fieldInsensitive, P[y], f),
         \A x \in Node : (Now(x))' = To(n, r, Now(x))
  PROVE  HoldersTrue'
<1>1. SUFFICES ASSUME NEW f \in Field, NEW x \in revPts'[f] PROVE (Holds(Now(x), f))'
  BY DEF HoldersTrue
<1>2. n \in Node /\ r \in Node /\ f \in ObjNode
  BY DEF TypeOK, ObjNode
<1>3. pts'[r] = P[r] \union P[n] /\ \A y \in Node : y # r => pts'[y] = P[y]
  BY <1>2 DEF MergeNodeToRep
<1>4. x \in revPts[f] \/ (x = r /\ f \in P[n])
  BY <1>1, <1>2 DEF MergeNodeToRep
<1>5. CASE x \in revPts[f]
  <2>1. x \in Node /\ Now(x) \in Node /\ Holds(Now(x), f)
    BY <1>2, <1>5 DEF HoldersTrue, Now, TypeOK
  <2>2. Held(fieldInsensitive, P[Now(x)], f)
    BY <2>1 DEF Holds, Held
  <2>3. P[Now(x)] \subseteq pts'[To(n, r, Now(x))]
    BY <1>3, <2>1 DEF To
  <2>4. (Now(x))' = To(n, r, Now(x))
    BY <2>1
  <2> QED
    BY <2>2, <2>3, <2>4 DEF Holds, Held
<1>6. CASE x = r /\ f \in P[n]
  <2>1. (Now(x))' = r
    BY <1>2, <1>6 DEF To, Now
  <2> QED
    BY <1>3, <1>6, <2>1 DEF Holds
<1> QED
  BY <1>4, <1>5, <1>6

(* Pointers that are redirected from a field hold its object then.         *)
LEMMA RedirectedHolds ==
  ASSUME TypeOK, Sending, collapsing # None, NEW f \in fieldsLeft
  PROVE  /\ Redirected(f) \in [Node -> SUBSET ObjNode]
         /\ \A y \in Node : \A g \in Field :
              Held(fieldInsensitive, pts[y], g) => Held(fieldInsensitive, Redirected(f)[y], g)
<1>1. /\ f \in Field /\ Base(f) = collapsing /\ collapsing \in fieldInsensitive /\ collapsing \in ObjNode
      /\ collapsing \in Obj
  BY DEF Sending, Stages, TypeOK, ObjNode
<1>2. \A y \in Node : \/ Redirected(f)[y] = pts[y]
                      \/ Redirected(f)[y] = (pts[y] \ {f}) \union {collapsing}
  BY DEF Redirected
<1>3. Redirected(f) \in [Node -> SUBSET ObjNode]
  BY <1>1 DEF Redirected, TypeOK
<1>4. \A g \in Field : Base(g) # f
  <2>1. \A g \in Field : Base(g) \in Obj
    BY BaseType DEF ObjNode
  <2> QED
    BY <1>1, <2>1, DisjointAssumption
<1>5. \A y \in Node : \A g \in Field :
        Held(fieldInsensitive, pts[y], g) => Held(fieldInsensitive, Redirected(f)[y], g)
  <2> SUFFICES ASSUME NEW y \in Node, NEW g \in Field, Held(fieldInsensitive, pts[y], g)
               PROVE  Held(fieldInsensitive, Redirected(f)[y], g)
    OBVIOUS
  <2>1. CASE Redirected(f)[y] = pts[y]
    BY <2>1
  <2>2. CASE Redirected(f)[y] = (pts[y] \ {f}) \union {collapsing}
    <3>1. CASE g = f
      BY <1>1, <2>2, <3>1 DEF Held
    <3>2. CASE g # f
      BY <1>4, <2>2, <3>2 DEF Held
    <3> QED
      BY <3>1, <3>2
  <2> QED
    BY <1>2, <2>1, <2>2
<1> QED
  BY <1>3, <1>5

(* addCopyEdge() too.                                                      *)
LEMMA HoldersEdges ==
  ASSUME TypeOK, GraphOK, HoldersTrue, pc # "merge", rep' = rep,
         fieldInsensitive \subseteq fieldInsensitive',
         NEW P \in SUBSET (Node \X Node), AddCopyEdges(P)
  PROVE  HoldersTrue'
<1> DEFINE D == [n \in Node |-> UNION {pts[e.src] : e \in {g \in NewCopyEdges(P) : g.dst = n}}]
<1>1. UnionPts(D)
  BY DEF AddCopyEdges
<1>2. \A e \in NewCopyEdges(P) : \E y \in Node : e.dst = rep[y]
  BY DEF NewCopyEdges
<1>3. \A y \in Node : rep[rep[y]] = rep[y]
  BY OneName DEF Now
<1>4. ASSUME NEW x \in Node, D[x] \intersect Field # {} PROVE Now(x) = x
  <2>1. PICK e \in NewCopyEdges(P) : e.dst = x
    BY <1>4
  <2> QED
    BY <1>2, <1>3, <2>1 DEF Now
<1> HIDE DEF D
<1> QED
  BY <1>1, <1>4, HoldersUnion

(* Field-insensitive objects stay so.                                      *)
LEMMA FlagsGrow ==
  ASSUME [Next]_vars
  PROVE  fieldInsensitive \subseteq fieldInsensitive'
BY DEF Next, vars, fiVars, ProcessAllAddr, SCCDetect, MergeSccNode, UpdateReps, ProcessNode,
  ProcessPWCNode, ResumePWCNode, ProcessCopy, ProcessGep, GepPtd, GepBlkOrConst, GepVariant,
  GepNormal, FinishGep, FinishCopyGep, CollapseNext, CollapseNodePts, CollapseField,
  CollapseOneField, FinishCollapseField, PopFromWorklist, HandleLoad, HandleStore, HandleEdge,
  UpdateCallGraph, ConnectPair, FinishCallGraph, Terminated

(* No step makes a false holder.                                           *)
LEMMA StepHoldersTrue ==
  ASSUME TypeOK, CurOK, GraphOK, Sending, Shape, HoldersTrue, [Next]_vars
  PROVE  HoldersTrue'
<1> USE DEF graphVars, ptVars, fiVars
<1>1. fieldInsensitive \subseteq fieldInsensitive'
  BY FlagsGrow
<1>2. ASSUME NEW d \in Node, Now(d) = d, NEW S, UnionPts(Into(d, S)), rep' = rep PROVE HoldersTrue'
  <2>1. \A x \in Node : Into(d, S)[x] \intersect Field # {} => Now(x) = x
    BY <1>2 DEF Into
  <2> QED
    BY <1>1, <1>2, <2>1, HoldersUnion
<1>3. CASE ProcessAllAddr
  <2> DEFINE D == [n \in Node |-> {o \in Obj : <<o, n>> \in prog.addr}]
  <2>1. UnionPts(D) /\ rep' = rep
    BY <1>3 DEF ProcessAllAddr
  <2>2. \A x \in Node : D[x] \intersect Field = {}
    BY DisjointAssumption
  <2> HIDE DEF D
  <2> QED
    BY <1>1, <2>1, <2>2, HoldersUnion
<1>4. CASE ProcessCopy
  <2>1. PICK e \in edgesLeft : UnionPts(Into(e.dst, diff)) /\ rep' = rep
    BY <1>4, PickSub DEF ProcessCopy
  <2>2. e \in edges /\ e \in Edge
    BY <1>4 DEF ProcessCopy, Shape, Handled, TypeOK
  <2>3. e.dst \in Node /\ Now(e.dst) = e.dst
    BY <2>2 DEF Edge, GraphOK, Graph, Ends, Reps, Now
  <2> QED
    BY <1>2, <2>1, <2>3
<1>5. CASE FinishGep
  <2>1. UnionPts(Into(gep.dst, tmpDstPts)) /\ rep' = rep /\ gep # None
    BY <1>5 DEF FinishGep
  <2>2. gep \in edges /\ gep \in Edge
    BY <2>1 DEF Shape, Handled, TypeOK
  <2>3. gep.dst \in Node /\ Now(gep.dst) = gep.dst
    BY <2>2 DEF Edge, GraphOK, Graph, Ends, Reps, Now
  <2> QED
    BY <1>2, <2>1, <2>3
<1>6. CASE GepPtd
  <2>1. PICK m \in ptdsLeft : GepBlkOrConst(m) \/ GepVariant(m) \/ GepNormal(m)
    BY <1>6, PickSub DEF GepPtd
  <2>2. pc # "merge" /\ rep' = rep
    BY <1>6 DEF GepPtd
  <2>3. CASE GepBlkOrConst(m) \/ GepVariant(m)
    <3>1. pts' = pts /\ revPts' = revPts
      BY <2>3 DEF GepBlkOrConst, GepVariant
    <3> QED
      BY <1>1, <2>2, <3>1 DEF HoldersTrue, Holds, Now
  <2>4. CASE GepNormal(m)
    <3> DEFINE f == GepObj(m, gep.off)
               P == IF gep.off = 0 THEN {<<Base(f), f>>} ELSE {}
    <3>1. AddCopyEdges(P)
      BY <2>4 DEF GepNormal
    <3>2. m \in ObjNode /\ gep.off \in Nat
      BY <1>6 DEF TypeOK, GepPtd, Edge
    <3>3. f \in ObjNode /\ Base(f) \in Obj
      BY <3>2, GepObjType, BaseType
    <3>4. P \in SUBSET (Node \X Node)
      BY <3>3 DEF Node, ObjNode
    <3> HIDE DEF P
    <3> QED
      BY <1>1, <2>2, <3>1, <3>4, HoldersEdges
  <2> QED
    BY <2>1, <2>3, <2>4
<1>7. CASE HandleLoad \/ HandleStore
  <2>1. PICK e \in edgesLeft : HandleEdge(e) /\ pc = "post"
    BY <1>7, PickSub DEF HandleLoad, HandleStore
  <2> DEFINE new == {o \in pts[cur] : <<e, o>> \notin cache}
             P == {IF e.kind = "load" THEN <<o, e.dst>> ELSE <<e.src, o>> : o \in {m \in new : ~NoCopy(m)}}
  <2>2. AddCopyEdges(P) /\ rep' = rep
    BY <2>1 DEF HandleEdge
  <2>3. pts[cur] \subseteq Node /\ e.src \in Node /\ e.dst \in Node
    BY <2>1 DEF TypeOK, CurOK, Edge, Node
  <2>4. ASSUME NEW p \in P PROVE p \in Node \X Node
    <3>1. PICK o \in new : p = IF e.kind = "load" THEN <<o, e.dst>> ELSE <<e.src, o>>
      OBVIOUS
    <3>2. o \in Node
      BY <2>3
    <3> QED
      BY <2>3, <3>1, <3>2
  <2> HIDE DEF P
  <2> QED
    BY <1>1, <2>1, <2>2, <2>4, HoldersEdges
<1>8. CASE ConnectPair
  <2>1. PICK p \in cpySrcNodes : UnionPts(Into(rep[p[2]], pts[rep[p[1]]])) /\ rep' = rep
    BY <1>8, PickSub DEF ConnectPair
  <2>2. rep[p[2]] \in Node /\ Now(rep[p[2]]) = rep[p[2]]
    BY DEF Shape, Handled, GraphOK, Graph, Reps, Now, TypeOK
  <2> QED
    BY <1>2, <2>1, <2>2
<1>9. CASE MergeSccNode
  <2>1. PICK n \in nodes, r \in nodes :
          n # r /\ MergeNodeToRep(n, r, pts) /\ \A x \in Node : (Now(x))' = To(n, r, Now(x))
    BY <1>9, SccMoves
  <2>2. rep[r] = r /\ pts \in [Node -> SUBSET ObjNode] /\ fieldInsensitive' = fieldInsensitive
    BY <1>9 DEF GraphOK, Graph, Reps, TypeOK, MergeSccNode
  <2> QED
    BY <2>1, <2>2, HoldersMerge
<1>10. CASE CollapseOneField
  <2>1. PICK f \in fieldsLeft :
           \/ rep[f] = rep[collapsing] /\ pts' = Redirected(f) /\ UNCHANGED <<revPts, graphVars>>
           \/ /\ rep[f] \in nodes /\ rep[collapsing] \in nodes /\ rep[f] # rep[collapsing]
              /\ MergeNodeToRep(rep[f], rep[collapsing], Redirected(f))
              /\ \A x \in Node : (Now(x))' = To(rep[f], rep[collapsing], Now(x))
    BY <1>10, FieldMoves
  <2>2. collapsing # None /\ fieldInsensitive' = fieldInsensitive
    BY <1>10 DEF CollapseOneField
  <2>3. /\ Redirected(f) \in [Node -> SUBSET ObjNode]
        /\ \A y \in Node : \A g \in Field :
             Held(fieldInsensitive, pts[y], g) => Held(fieldInsensitive, Redirected(f)[y], g)
    BY <2>2, RedirectedHolds
  <2>4. CASE rep[f] = rep[collapsing] /\ pts' = Redirected(f) /\ UNCHANGED <<revPts, graphVars>>
    <3> SUFFICES ASSUME NEW g \in Field, NEW x \in revPts[g] PROVE (Holds(Now(x), g))'
      BY <2>4 DEF HoldersTrue
    <3>1. g \in ObjNode
      BY DEF ObjNode
    <3>2. Now(x) \in Node /\ Holds(Now(x), g) /\ (Now(x))' = Now(x)
      BY <2>4, <3>1 DEF HoldersTrue, TypeOK, Now
    <3>3. Held(fieldInsensitive, Redirected(f)[Now(x)], g)
      BY <2>3, <3>2 DEF Holds, Held
    <3> QED
      BY <2>2, <2>4, <3>2, <3>3 DEF Holds, Held
  <2>5. CASE ~(rep[f] = rep[collapsing])
    <3>1. rep[rep[collapsing]] = rep[collapsing]
      BY <2>1, <2>5 DEF GraphOK, Graph, Reps
    <3> QED
      BY <2>1, <2>2, <2>3, <2>5, <3>1, HoldersMerge
  <2> QED
    BY <2>1, <2>4, <2>5
<1>11. CASE UpdateReps
  <2>1. /\ \A x \in Node : (Now(x))' = Now(x)
        /\ UNCHANGED <<pts, revPts, fieldInsensitive>>
    BY <1>11, UpdateMoves DEF UpdateReps
  <2>2. \A f \in Field : revPts[f] \subseteq Node
    BY DEF TypeOK, ObjNode
  <2> QED
    BY <2>1, <2>2 DEF HoldersTrue, Holds
<1>12. CASE \/ SCCDetect \/ ProcessNode \/ ProcessPWCNode \/ ResumePWCNode \/ ProcessGep \/ FinishCopyGep
            \/ CollapseNext \/ CollapseNodePts \/ FinishCollapseField \/ PopFromWorklist
            \/ UpdateCallGraph \/ FinishCallGraph \/ UNCHANGED vars
  <2>1. UNCHANGED <<rep, pts, revPts>>
    BY <1>12 DEF vars, SCCDetect, ProcessNode, ProcessPWCNode, ResumePWCNode, ProcessGep, FinishCopyGep,
      CollapseNext, CollapseNodePts, FinishCollapseField, PopFromWorklist, UpdateCallGraph,
      FinishCallGraph
  <2> QED
    BY <1>1, <2>1 DEF HoldersTrue, Holds, Now
<1> QED
  BY <1>3, <1>4, <1>5, <1>6, <1>7, <1>8, <1>9, <1>10, <1>11, <1>12 DEF Next, Terminated
-----------------------------------------------------------------------------
(* The post phase serves every pointee.                                    *)

(* A pointee that was served stays served.                                 *)
LEMMA PointeeKept ==
  ASSUME TypeOK, GraphOK, Shape, [Next]_vars, NEW e \in prog.edges, NEW o \in ObjNode,
         Skipped(o) \/ Met(o, e)
  PROVE  (Skipped(o) \/ Met(o, e))'
<1>1. CASE Skipped(o)
  BY <1>1, FlagsGrow DEF Skipped
<1>2. CASE Met(o, e)
  <2>1. o \in Node /\ e.src \in Node /\ e.dst \in Node
    BY StatementNodes DEF Node
  <2> QED
    BY <1>2, <2>1, StaysJoined DEF Met
<1> QED
  BY <1>1, <1>2

(* A node whose points-to set grows is reported as grown.                  *)
LEMMA UnionGrown ==
  ASSUME TypeOK, NEW D, UnionPts(D), NEW x \in Node
  PROVE  pts'[x] = pts[x] \/ x \in Grown(D)
BY DEF UnionPts, Grown, TypeOK

(* addCopyEdge() queues its target.                                        *)
LEMMA TargetQueued ==
  ASSUME TypeOK, NEW P, AddCopyEdges(P), NEW x \in Node
  PROVE  worklist \subseteq worklist' /\ (pts'[x] = pts[x] \/ x \in worklist')
<1> DEFINE D == [n \in Node |-> UNION {pts[e.src] : e \in {f \in NewCopyEdges(P) : f.dst = n}}]
<1>1. UnionPts(D) /\ worklist' = worklist \union Grown(D)
  BY DEF AddCopyEdges
<1> HIDE DEF D
<1> QED
  BY <1>1, UnionGrown

(* unionPts() into one node queues it.                                     *)
LEMMA IntoQueuedOnce ==
  ASSUME TypeOK, NEW d, NEW S, UnionPts(Into(d, S)), NEW x \in Node, rep[x] = x,
         {rep[n] : n \in Grown(Into(d, S))} \subseteq worklist'
  PROVE  pts'[x] = pts[x] \/ x \in worklist'
<1>1. x \in Grown(Into(d, S)) => rep[x] \in worklist'
  OBVIOUS
<1> QED
  BY <1>1, UnionGrown

(* Outside of the post phase and of collapsing, a node that never merged   *)
(* is queued when it gets more.                                            *)
LEMMA GrowthQueued ==
  ASSUME TypeOK, GraphOK, [Next]_vars, PointeesServed, NEW x \in Node, (Alone(x))',
         ~(PopFromWorklist \/ HandleLoad \/ HandleStore \/ CollapseOneField \/ UNCHANGED vars)
  PROVE  pc # "post" /\ worklist \subseteq worklist' /\ (pts'[x] = pts[x] \/ x \in worklist')
<1> USE DEF graphVars, ptVars
<1>1. rep[x] = x
  BY AloneBefore DEF Alone
<1>2. CASE ProcessAllAddr
  BY <1>2, UnionGrown DEF ProcessAllAddr, PointeesServed
<1>3. CASE ProcessCopy
  <2>1. PICK e \in edgesLeft :
          /\ UnionPts(Into(e.dst, diff))
          /\ worklist' = worklist \union {rep[n] : n \in Grown(Into(e.dst, diff))}
    BY <1>3, PickSub DEF ProcessCopy
  <2> QED
    BY <1>1, <1>3, <2>1, IntoQueuedOnce DEF ProcessCopy
<1>4. CASE FinishGep
  BY <1>1, <1>4, IntoQueuedOnce DEF FinishGep
<1>5. CASE GepPtd
  BY <1>5, TargetQueued DEF GepPtd, GepBlkOrConst, GepVariant, GepNormal
<1>6. CASE ConnectPair
  <2>1. PICK p \in cpySrcNodes : /\ UnionPts(Into(rep[p[2]], pts[rep[p[1]]]))
                                 /\ worklist' = worklist \union {rep[p[2]]}
    BY <1>6, PickSub DEF ConnectPair
  <2>2. x \in Grown(Into(rep[p[2]], pts[rep[p[1]]])) => x = rep[p[2]]
    BY DEF Grown, Into
  <2> QED
    BY <1>6, <2>1, <2>2, UnionGrown DEF ConnectPair
<1>7. CASE MergeSccNode
  <2>1. PICK n \in nodes, r \in nodes :
          /\ n # r /\ MergeNodeToRep(n, r, pts)
          /\ subs' = [subs EXCEPT ![r] = @ \union {n}]
          /\ \A z \in Node : (Now(z))' = To(n, r, Now(z))
    BY <1>7, SccMoves
  <2>2. n \in subs'[r]
    BY <2>1 DEF TypeOK
  <2>3. x # r
    BY <2>1, <2>2, AloneApart
  <2>4. pts'[x] = pts[x]
    BY <2>1, <2>3 DEF MergeNodeToRep, TypeOK
  <2> QED
    BY <1>7, <2>4 DEF MergeSccNode
<1>8. CASE \/ SCCDetect \/ UpdateReps \/ ProcessNode \/ ProcessPWCNode \/ ResumePWCNode \/ ProcessGep
           \/ FinishCopyGep \/ CollapseNext \/ CollapseNodePts \/ FinishCollapseField
           \/ UpdateCallGraph \/ FinishCallGraph
  <2>1. pc # "post"
    BY <1>8 DEF SCCDetect, UpdateReps, ProcessNode, ProcessPWCNode, ResumePWCNode, ProcessGep,
      FinishCopyGep, CollapseNext, CollapseNodePts, FinishCollapseField, UpdateCallGraph, SolvePost,
      FinishCallGraph, GraphOK, Graph, Merges
  <2>2. pts' = pts /\ worklist' = worklist
    BY <1>8 DEF SCCDetect, UpdateReps, ProcessNode, ProcessPWCNode, ResumePWCNode, ProcessGep,
      FinishCopyGep, CollapseNext, CollapseNodePts, FinishCollapseField, UpdateCallGraph,
      FinishCallGraph
  <2> QED
    BY <2>1, <2>2
<1> QED
  BY <1>2, <1>3, <1>4, <1>5, <1>6, <1>7, <1>8 DEF Next, Terminated

(* The object a field is collapsed into takes over what the field had.     *)
LEMMA CollapseServes ==
  ASSUME TypeOK, GraphOK, Sending, Shape, HoldersTrue, PointeesServed, [Next]_vars, CollapseOneField,
         NEW e \in prog.edges, e.kind \in Complex, (Alone(Pointer(e)))',
         NEW o \in pts'[Pointer(e)]
  PROVE  (Due(e))' \/ (Skipped(o) \/ Met(o, e))'
<1> DEFINE s == Pointer(e)
<1>1. /\ pc \in {"pwc", "drain"} /\ pc' = pc /\ worklist' = worklist /\ collapsing # None
      /\ fieldInsensitive' = fieldInsensitive /\ collapsing' = collapsing
  BY DEF CollapseOneField, GraphOK, Graph, Merges, fiVars
<1>2. s \in Node /\ e.src \in Node /\ e.dst \in Node
  BY StatementNodes
<1>3. Alone(s)
  BY <1>2, AloneBefore
<1>4. s \in worklist => (Due(e))'
  BY <1>1 DEF Due
<1>5. s \in worklist \/ \A q \in pts[s] : (Skipped(q) \/ Met(q, e))'
  <2>1. Due(e) => s \in worklist
    BY <1>1 DEF Due
  <2>2. pts[s] \subseteq ObjNode
    BY <1>2 DEF TypeOK
  <2>3. s \in worklist \/ \A q \in pts[s] : Skipped(q) \/ Met(q, e)
    BY <1>3, <2>1 DEF PointeesServed
  <2> QED
    BY <2>2, <2>3, PointeeKept
<1>6. PICK f \in fieldsLeft :
        \/ rep[f] = rep[collapsing] /\ pts' = Redirected(f) /\ UNCHANGED graphVars
        \/ /\ rep[f] \in nodes /\ rep[collapsing] \in nodes /\ rep[f] # rep[collapsing]
           /\ MergeNodeToRep(rep[f], rep[collapsing], Redirected(f))
           /\ subs' = [subs EXCEPT ![rep[collapsing]] = @ \union {rep[f]} \union subs[rep[f]]]
           /\ \A x \in Node : (Now(x))' = To(rep[f], rep[collapsing], Now(x))
  BY FieldMoves
<1>7. /\ f \in Field /\ f \in Node /\ f \in ObjNode /\ Base(f) = collapsing
      /\ collapsing \in fieldInsensitive /\ collapsing \in Node /\ collapsing \in ObjNode
  BY <1>1 DEF Sending, Stages, TypeOK, Node, ObjNode
<1>8. pts'[s] = Redirected(f)[s] /\ rep'[rep'[f]] = rep'[rep'[collapsing]]
  <2>1. CASE rep[f] = rep[collapsing] /\ pts' = Redirected(f) /\ UNCHANGED graphVars
    BY <2>1 DEF graphVars
  <2>2. CASE rep[f] # rep[collapsing]
    <3>1. rep[f] \in subs'[rep[collapsing]]
      BY <1>6, <2>2 DEF TypeOK
    <3>2. s # rep[collapsing]
      BY <1>2, <1>6, <2>2, <3>1, AloneApart
    <3>3. pts'[s] = Redirected(f)[s]
      BY <1>2, <1>6, <2>2, <3>2 DEF MergeNodeToRep, Redirected
    <3>4. Now(f) = rep[f] /\ Now(collapsing) = rep[collapsing]
      BY <1>1, <1>7, OneName
    <3>5. \A x \in Node : rep'[rep'[x]] = To(rep[f], rep[collapsing], Now(x))
      BY <1>6, <2>2 DEF Now
    <3>6. rep'[rep'[f]] = rep[collapsing] /\ rep'[rep'[collapsing]] = rep[collapsing]
      BY <1>7, <3>4, <3>5 DEF To
    <3> QED
      BY <3>3, <3>6
  <2> QED
    BY <1>6, <2>1, <2>2
<1>9. CASE o \in pts[s]
  BY <1>4, <1>5, <1>9
<1>10. CASE o \notin pts[s]
  <2>1. o = collapsing /\ \E x \in revPts[f] : s = rep[x]
    BY <1>2, <1>8, <1>10 DEF Redirected
  <2>2. Holds(s, f)
    <3>1. PICK x \in revPts[f] : s = rep[x]
      BY <2>1
    <3>2. x \in Node
      BY <1>7 DEF TypeOK
    <3>3. Now(x) = s
      BY <1>1, <3>1, <3>2, OneName
    <3> QED
      BY <1>7, <3>1, <3>3 DEF HoldersTrue
  <2>3. f \in pts[s]
    BY <1>7, <1>10, <2>1, <2>2 DEF Holds
  <2>4. CASE s \in worklist
    BY <1>4, <2>4
  <2>5. CASE (Skipped(f))'
    <3>1. f \notin fieldInsensitive'
      BY <1>1, <1>7, DisjointAssumption DEF TypeOK
    <3>2. NoCopy(f)
      BY <2>5, <3>1 DEF Skipped
    <3> QED
      BY <1>1, <1>7, <2>1, <3>2 DEF Skipped
  <2>6. CASE (Met(f, e))'
    BY <1>8, <2>1, <2>6 DEF Met, Now
  <2> QED
    BY <1>5, <2>3, <2>4, <2>5, <2>6
<1> QED
  BY <1>9, <1>10

(* A queued pointer has all its loads and stores taken in hand.            *)
LEMMA PopServes ==
  ASSUME TypeOK, GraphOK, Shape, EdgesKept, PointeesServed, [Next]_vars, PopFromWorklist,
         NEW e \in prog.edges, e.kind \in Complex, (Alone(Pointer(e)))'
  PROVE  (Due(e))' \/ \A o \in pts'[Pointer(e)] : (Skipped(o) \/ Met(o, e))'
<1> DEFINE s == Pointer(e)
<1>1. PICK x \in worklist :
        /\ worklist' = worklist \ {x}
        /\ edgesLeft' = {g \in edges : (g.kind = "load" /\ g.src = rep[x])
                                       \/ (g.kind = "store" /\ g.dst = rep[x])}
        /\ IF edgesLeft' = {} THEN UNCHANGED <<cur, pc>> ELSE cur' = rep[x] /\ pc' = "post"
  BY PickSub DEF PopFromWorklist
<1>2. pc = "wave" /\ UNCHANGED <<rep, subs, pts, edges>>
  BY DEF PopFromWorklist, SolvePost, graphVars, ptVars
<1>3. s \in Node /\ e.src \in Node /\ e.dst \in Node
  BY StatementNodes
<1>4. Alone(s)
  BY <1>3, AloneBefore
<1>5. CASE Due(e)
  <2>1. s \in worklist
    BY <1>2, <1>5 DEF Due
  <2>2. CASE s # x
    BY <1>1, <2>1, <2>2 DEF Due
  <2>3. CASE s = x
    <3>1. rep[x] = s /\ Wired(edges, e)
      BY <1>4, <2>3 DEF Alone, EdgesKept
    <3>2. Wired(edgesLeft', e)
      BY <1>1, <3>1 DEF Wired, HasEdge, Pointer
    <3>3. edgesLeft' # {}
      BY <3>2 DEF Wired, HasEdge
    <3>4. (Wired(edgesLeft, e))'
      BY <1>2, <3>2 DEF Wired, Now
    <3> QED
      BY <1>1, <3>1, <3>3, <3>4 DEF Due
  <2> QED
    BY <2>2, <2>3
<1>6. CASE ~Due(e)
  <2>1. pts[s] \subseteq ObjNode
    BY <1>3 DEF TypeOK
  <2>2. \A o \in pts[s] : Skipped(o) \/ Met(o, e)
    BY <1>4, <1>6 DEF PointeesServed
  <2> QED
    BY <1>2, <2>1, <2>2, PointeeKept
<1> QED
  BY <1>5, <1>6

(* Handling the edge leaves no pointee of the pointer out.                 *)
LEMMA HandleServes ==
  ASSUME TypeOK, CurOK, GraphOK, Cached', Shape, PointeesServed, [Next]_vars, pc = "post",
         NEW h \in edgesLeft, HandleEdge(h),
         NEW e \in prog.edges, e.kind \in Complex, (Alone(Pointer(e)))'
  PROVE  (Due(e))' \/ \A o \in pts'[Pointer(e)] : (Skipped(o) \/ Met(o, e))'
<1> DEFINE s == Pointer(e)
<1>1. s \in Node /\ e.src \in Node /\ e.dst \in Node
  BY StatementNodes
<1>2. Alone(s)
  BY <1>1, AloneBefore
<1>3. /\ cache' = cache \union ({h} \X {o \in pts[cur] : <<h, o>> \notin cache})
      /\ edgesLeft' = edgesLeft \ {h} /\ rep' = rep
      /\ edgesLeft' # {} => cur' = cur /\ pc' = pc
  BY DEF HandleEdge
<1>4. worklist \subseteq worklist' /\ (pts'[s] = pts[s] \/ s \in worklist')
  BY <1>1, TargetQueued DEF HandleEdge
<1>5. CASE s \in worklist'
  BY <1>5 DEF Due
<1>6. CASE s \notin worklist' /\ ~Due(e)
  <2>1. pts[s] \subseteq ObjNode
    BY <1>1 DEF TypeOK
  <2>2. \A o \in pts[s] : Skipped(o) \/ Met(o, e)
    BY <1>2, <1>6 DEF PointeesServed
  <2> QED
    BY <1>4, <1>6, <2>1, <2>2, PointeeKept
<1>7. CASE s \notin worklist' /\ Due(e)
  <2>1. cur = s /\ Wired(edgesLeft, e) /\ pts'[s] = pts[s]
    BY <1>4, <1>7 DEF Due
  <2>2. PICK k \in edgesLeft :
          IF e.kind = "load" THEN k.kind = "load" /\ k.src = e.src /\ k.dst = Now(e.dst)
                             ELSE k.kind = "store" /\ k.src = Now(e.src) /\ k.dst = e.dst
    BY <2>1 DEF Wired, HasEdge
  <2>3. CASE k # h
    <3>1. k \in edgesLeft' /\ cur' = cur /\ pc' = pc
      BY <1>3, <2>3
    <3>2. Wired(edgesLeft', e)
      BY <2>2, <3>1 DEF Wired, HasEdge
    <3>3. (Wired(edgesLeft, e))'
      BY <1>3, <3>2 DEF Wired, Now
    <3> QED
      BY <2>1, <3>1, <3>3 DEF Due
  <2>4. CASE k = h
    <3> SUFFICES ASSUME NEW o \in pts'[s] PROVE (Skipped(o) \/ Met(o, e))'
      OBVIOUS
    <3>1. <<h, o>> \in cache'
      BY <1>3, <2>1
    <3>2. <<h, o>>[1] = h /\ <<h, o>>[2] = o
      OBVIOUS
    <3>3. NoCopy(o) \/ IF h.kind = "load" THEN (Joined(Now(o), h.dst))' ELSE (Joined(h.src, Now(o)))'
      BY <3>1, <3>2 DEF Cached
    <3>4. \A z : (Now(z))' = Now(z)
      BY <1>3 DEF Now
    <3>5. CASE NoCopy(o)
      BY <3>5 DEF Skipped, NoCopy
    <3>6. CASE e.kind = "load" /\ (Joined(Now(o), h.dst))'
      BY <2>2, <2>4, <3>4, <3>6 DEF Met
    <3>7. CASE e.kind = "store" /\ (Joined(h.src, Now(o)))'
      BY <2>2, <2>4, <3>4, <3>7 DEF Met
    <3> QED
      BY <2>2, <2>4, <3>3, <3>5, <3>6, <3>7 DEF Complex
  <2> QED
    BY <2>3, <2>4
<1> QED
  BY <1>5, <1>6, <1>7

(* No step leaves a pointee of an unmerged pointer behind.                 *)
LEMMA StepPointeesServed ==
  ASSUME TypeOK, CurOK, GraphOK, Sending, Cached', Shape, EdgesKept, HoldersTrue, PointeesServed,
         [Next]_vars
  PROVE  PointeesServed'
<1>1. pc' = "addr" => UNCHANGED vars
  BY DEF Next, ProcessAllAddr, SCCDetect, MergeSccNode, UpdateReps, ProcessNode, ProcessPWCNode,
    ResumePWCNode, HandleCopyGep, ProcessCopy, ProcessGep, GepPtd, FinishGep, FinishCopyGep,
    CollapseNext, CollapseNodePts, CollapseOneField, FinishCollapseField, PopFromWorklist, SolvePost,
    HandleLoad, HandleStore, HandleEdge, UpdateCallGraph, ConnectPair, FinishCallGraph, Terminated,
    GraphOK, Graph, Merges
<1>2. pc' = "addr" => worklist' = {}
  BY <1>1 DEF vars, PointeesServed
<1>3. ASSUME NEW e \in prog.edges, e.kind \in Complex, (Alone(Pointer(e)))'
      PROVE  (Due(e))' \/ \A o \in pts'[Pointer(e)] : (Skipped(o) \/ Met(o, e))'
  <2> DEFINE s == Pointer(e)
  <2>1. s \in Node /\ Alone(s)
    BY <1>3, StatementNodes, AloneBefore
  <2>2. Due(e) \/ \A o \in pts[s] : Skipped(o) \/ Met(o, e)
    BY <1>3, <2>1 DEF PointeesServed
  <2>3. pts[s] \subseteq ObjNode
    BY <2>1 DEF TypeOK
  <2>4. CASE UNCHANGED vars
    <3>1. UNCHANGED <<worklist, pc, cur, edgesLeft, rep, pts>>
      BY <2>4 DEF vars, graphVars, ptVars
    <3>2. Due(e) => (Due(e))'
      BY <3>1 DEF Due, Wired, Now
    <3> QED
      BY <2>2, <2>3, <3>1, <3>2, PointeeKept
  <2>5. CASE CollapseOneField
    BY <1>3, <2>5, CollapseServes
  <2>6. CASE PopFromWorklist
    BY <1>3, <2>6, PopServes
  <2>7. CASE HandleLoad \/ HandleStore
    <3>1. PICK h \in edgesLeft : HandleEdge(h) /\ pc = "post"
      BY <2>7, PickSub DEF HandleLoad, HandleStore
    <3> QED
      BY <1>3, <3>1, HandleServes
  <2>8. CASE ~(PopFromWorklist \/ HandleLoad \/ HandleStore \/ CollapseOneField \/ UNCHANGED vars)
    <3>1. pc # "post" /\ worklist \subseteq worklist' /\ (pts'[s] = pts[s] \/ s \in worklist')
      BY <1>3, <2>1, <2>8, GrowthQueued
    <3>2. s \in worklist' => (Due(e))'
      BY DEF Due
    <3>3. Due(e) => s \in worklist'
      BY <3>1 DEF Due
    <3> HIDE DEF s
    <3>4. CASE s \notin worklist'
      BY <2>2, <2>3, <3>1, <3>3, <3>4, PointeeKept DEF s
    <3> QED
      BY <3>2, <3>4
  <2> QED
    BY <2>4, <2>5, <2>6, <2>7, <2>8
<1>4. prog' = prog
  BY SameProgram
<1> QED
  BY <1>2, <1>3, <1>4 DEF PointeesServed

(* The inductive invariant of part four.                                   *)
LEMMA ServedInvariant == Spec => [](EdgesKept /\ HoldersTrue /\ PointeesServed)
<1>1. Init => EdgesKept /\ HoldersTrue /\ PointeesServed
  <2> SUFFICES ASSUME Init PROVE EdgesKept /\ HoldersTrue /\ PointeesServed
    OBVIOUS
  <2>1. \A n \in Node : Now(n) = n
    BY DEF Init, Now
  <2>2. \A e \in prog.edges : e.src \in Node /\ e.dst \in Node
    BY StatementAssumption DEF Init, Node
  <2>3. EdgesKept
    BY <2>1, <2>2 DEF Init, EdgesKept, Wired, HasEdge, Complex
  <2>4. HoldersTrue
    BY DEF Init, HoldersTrue, ObjNode
  <2>5. \A e \in prog.edges : pts[Pointer(e)] = {}
    BY <2>2 DEF Init, Pointer
  <2> QED
    BY <2>3, <2>4, <2>5 DEF Init, PointeesServed
<1>2. /\ TypeOK /\ CurOK /\ GraphOK /\ Sending /\ Cached' /\ Shape /\ [Next]_vars
      /\ EdgesKept /\ HoldersTrue /\ PointeesServed
      => (EdgesKept /\ HoldersTrue /\ PointeesServed)'
  BY StepEdgesKept, StepHoldersTrue, StepPointeesServed
<1> QED
  BY <1>1, <1>2, TypeCorrect, GraphInvariant, SendingInvariant, CachedInvariant, ResultInvariant,
     PTL DEF Spec
-----------------------------------------------------------------------------
(* At the end, an unmerged pointer was alone all along, and not late.      *)
LEMMA UnmergedAlone ==
  ASSUME TypeOK, GraphOK, pc = "done", NEW n \in Ptr, n \in Named(prog), Unmerged(n)
  PROVE  Alone(n) /\ ~Late(n)
<1>1. n \in Node /\ rep[n] \in nodes /\ rep[n] \in Node
  BY NamedOnGraph DEF GraphOK, Node, TypeOK
<1>2. rep[rep[n]] = rep[n] /\ \A x \in Node : x \in subs[rep[x]]
  BY <1>1 DEF GraphOK, Graph, Reps
<1>3. rep[n] = n
  BY <1>1, <1>2 DEF Unmerged
<1>4. ASSUME NEW f \in Field, rep[f] = n PROVE FALSE
  <2>1. f \in subs[n]
    BY <1>2, <1>4 DEF Node, ObjNode
  <2> QED
    BY <1>3, <2>1, DisjointAssumption DEF Unmerged
<1> QED
  BY <1>3, <1>4 DEF Alone, Late, Unmerged

(* Where nothing was merged, nothing is missed.                            *)
THEOREM UnmergedComplete == Spec => []UnmergedServed
<1>1. /\ TypeOK /\ GraphOK /\ Sending /\ Shape /\ Ordered
      /\ EdgesKept /\ HoldersTrue /\ PointeesServed
      => UnmergedServed
  <2> SUFFICES ASSUME TypeOK, GraphOK, Sending, Shape, Ordered, EdgesKept, PointeesServed, pc = "done",
                      NEW e \in prog.edges
               PROVE  Complete(e)
    BY DEF UnmergedServed
  <2>1. /\ e \in Edge /\ e.src \in Named(prog) /\ e.dst \in Named(prog)
        /\ e.src \in Ptr /\ e.dst \in Ptr /\ e.src \in Node /\ e.dst \in Node
    BY StatementEnds, StatementNodes
  <2>2. \A x \in Node : Now(x) = rep[x]
    BY OneName
  <2>3. ~Due(e)
    BY DEF Due, Ordered, Finished
  <2>4. ASSUME NEW m \in Node, NEW n \in Node, Joined(Now(m), Now(n)) PROVE Linked(m, n)
    BY <2>2, <2>4 DEF Joined, Linked
  <2>5. ASSUME e.kind = "load", Unmerged(e.src), NEW o \in Pt(e.src)
        PROVE  Skipped(o) \/ Linked(o, e.dst)
    <3>1. Alone(e.src) /\ Pointer(e) = e.src
      BY <2>1, <2>5, UnmergedAlone DEF Pointer
    <3>2. o \in pts[e.src] /\ o \in Node
      BY <2>1, <2>5, <3>1 DEF Pt, Alone, TypeOK, Node
    <3>3. Skipped(o) \/ Met(o, e)
      BY <2>3, <2>5, <3>1, <3>2 DEF PointeesServed, Complex
    <3> QED
      BY <2>1, <2>4, <2>5, <3>2, <3>3 DEF Met
  <2>6. ASSUME e.kind = "store", Unmerged(e.dst), NEW o \in Pt(e.dst)
        PROVE  Skipped(o) \/ Linked(e.src, o)
    <3>1. Alone(e.dst) /\ Pointer(e) = e.dst
      BY <2>1, <2>6, UnmergedAlone DEF Pointer
    <3>2. o \in pts[e.dst] /\ o \in Node
      BY <2>1, <2>6, <3>1 DEF Pt, Alone, TypeOK, Node
    <3>3. Skipped(o) \/ Met(o, e)
      BY <2>3, <2>6, <3>1, <3>2 DEF PointeesServed, Complex
    <3> QED
      BY <2>1, <2>4, <2>6, <3>2, <3>3 DEF Met
  <2>7. ASSUME e.kind \in {"ngep", "vgep"}, Unmerged(e.src), Unmerged(e.dst) PROVE Satisfied(e)
    <3>1. Alone(e.src) /\ Alone(e.dst) /\ ~Late(e.src)
      BY <2>1, <2>7, UnmergedAlone
    <3>2. e \in edges /\ e.kind \in Direct
      BY <2>7, <3>1 DEF EdgesKept, Direct
    <3>3. Pt(e.src) = pts[e.src] /\ Pt(e.dst) = pts[e.dst] /\ rep[e.dst] = e.dst
      BY <3>1 DEF Pt, Alone
    <3>4. \A o \in Pt(e.src) : Arrives(fieldInsensitive, pts[e.dst], e, o)
      BY <3>1, <3>2, <3>3, EdgePassed
    <3>5. CASE e.kind = "ngep"
      BY <3>3, <3>4, <3>5 DEF Satisfied, Arrives, Holds, Held, Moved
    <3>6. CASE e.kind = "vgep"
      BY <3>3, <3>4, <3>6 DEF Satisfied, Arrives
    <3> QED
      BY <2>7, <3>5, <3>6
  <2>8. CASE e.kind = "load" /\ Unmerged(e.src)
    BY <2>5, <2>8 DEF Complete
  <2>9. CASE e.kind = "store" /\ Unmerged(e.dst)
    BY <2>6, <2>9 DEF Complete
  <2>10. CASE e.kind \in {"ngep", "vgep"} /\ Unmerged(e.src) /\ Unmerged(e.dst)
    BY <2>7, <2>10 DEF Complete
  <2> QED
    BY <2>8, <2>9, <2>10 DEF Complete
<1> QED
  BY <1>1, GraphInvariant, SendingInvariant, ResultInvariant, ServedInvariant, PTL
=============================================================================
