------------------------ MODULE FlowSensitiveProofs ------------------------
(***************************************************************************)
(* The sparse flow-sensitive analysis, for every program: it keeps its     *)
(* types, derives nothing that the pre-analysis rules out, loses nothing   *)
(* on the way, and ends with the least solution of its equations.          *)
(***************************************************************************)
EXTENDS FlowSensitive, TLAPS

Content == [Obj -> SUBSET Obj]
Valid == TypeOK /\ prog \in Programs

(* The parts of a program.                                                 *)
LEMMA ProgramParts ==
  ASSUME prog \in Programs
  PROVE  /\ prog.kind \in [Node -> {"addr", "copy", "gep", "load", "store", "mr"}]
         /\ prog.obj \in [Var -> Obj \union {None}] /\ prog.field \in [Var -> [Obj -> Obj]]
         /\ prog.src \in [Node -> Var \union {None}] /\ prog.dst \in [Node -> Var \union {None}]
         /\ prog.edges \subseteq Edge
         /\ prog.icalls \subseteq [fp : Var, target : Obj, id : CallId, edges : SUBSET Edge]
         /\ prog.calls \subseteq CallId
         /\ prog.parts \in [Obj -> SUBSET Obj]
         /\ prog.ander \in [Var \union Obj -> SUBSET Obj]
<1>1. prog \in Program
  BY ProgramAssumption
<1> QED
  BY <1>1 DEF Program

(* What the assumptions on programs say of the one at hand.                *)
LEMMA ProgramShape ==
  ASSUME prog \in Programs
  PROVE  /\ \A n \in Node : n \in Mem <=> prog.kind[n] \in {"store", "mr"}
         /\ \A n \in Node : prog.kind[n] \in {"load", "store"} => prog.src[n] \in Var
         /\ \A n \in Node : prog.kind[n] = "store" => prog.dst[n] \in Var
         /\ \A v \in Var : prog.kind[v] = "addr" => prog.obj[v] \in Obj
         /\ PreAnalysed(prog) /\ Connected(prog)
<1>1. /\ \A n \in Node : n \in Mem <=> prog.kind[n] \in {"store", "mr"}
      /\ \A n \in Node : Operands(prog, n) \subseteq Var
      /\ \A v \in Var : prog.kind[v] = "addr" => prog.obj[v] \in Obj
      /\ PreAnalysed(prog)
  BY ProgramAssumption
<1>2. Connected(prog)
  BY ConnectedAssumption
<1> QED
  BY <1>1, <1>2 DEF Operands

(* The edges of calls are edges, and edges join nodes.                     *)
LEMMA EdgesJoinNodes ==
  ASSUME prog \in Programs
  PROVE  /\ CallEdges(prog) \subseteq Edge
         /\ SVFGNodes(prog) \subseteq Node
         /\ \A g \in Edge : g.src \in Node /\ g.dst \in Node /\ g.guard \subseteq Obj
         /\ \A g \in Edge : IF g.ind THEN g.src \in Mem ELSE g.src \in Var
<1>1. CallEdges(prog) \subseteq Edge
  BY ProgramParts DEF CallEdges
<1>2. \A g \in Edge : g.src \in Node /\ g.dst \in Node /\ g.guard \subseteq Obj
  BY DEF Edge
<1>3. \A g \in Edge : IF g.ind THEN g.src \in Mem ELSE g.src \in Var
  BY DEF Edge
<1> QED
  BY <1>1, <1>2, <1>3, ProgramParts DEF SVFGNodes

-----------------------------------------------------------------------------
(* Type correctness.                                                       *)

(* Field nodes, successors, sources and what is read are what they should  *)
(* be.                                                                     *)
LEMMA Helpers ==
  ASSUME Valid
  PROVE  /\ \A o \in Obj : AllFields(o) \subseteq Obj
         /\ \A g \in Edge : Carried(g) \subseteq Obj
         /\ \A n \in Node : Succs(n) \subseteq Node /\ SourcePts(n) \subseteq Obj
         /\ \A n \in Node : prog.kind[n] = "load" => Readable(n) \subseteq Obj
         /\ \A n \in Node : prog.kind[n] = "store" => Targets(n) \subseteq Obj
<1>1. \A o \in Obj : AllFields(o) \subseteq Obj
  BY ProgramParts DEF AllFields, Valid
<1>2. \A g \in Edge : Carried(g) \subseteq Obj
  BY <1>1, EdgesJoinNodes DEF Carried, Valid
<1>3. \A n \in Node : Succs(n) \subseteq Node /\ SourcePts(n) \subseteq Obj
  BY EdgesJoinNodes DEF Valid, TypeOK, Succs, Sources, SourcePts
<1>4. \A n \in Node : prog.kind[n] = "load" => Readable(n) \subseteq Obj
  BY <1>1, ProgramShape DEF Readable, Valid, TypeOK
<1>5. \A n \in Node : prog.kind[n] = "store" => Targets(n) \subseteq Obj
  BY ProgramShape DEF Targets, Valid, TypeOK
<1> QED
  BY <1>1, <1>2, <1>3, <1>4, <1>5

(* A pointer that grows.                                                   *)
LEMMA GrowPtrFacts ==
  ASSUME Valid, NEW n \in Var, NEW new \in SUBSET Obj, NEW W \in SUBSET Node, GrowPtr(n, new, W)
  PROVE  /\ pts' \in [Var -> SUBSET Obj] /\ worklist' \subseteq Node /\ W \subseteq worklist'
         /\ pts'[n] = pts[n] \union new
         /\ \A v \in Var : v # n => pts'[v] = pts[v]
         /\ pts' # pts => Succs(n) \subseteq worklist'
<1>1. pts \in [Var -> SUBSET Obj] /\ n \in Node
  BY DEF Valid, TypeOK, Node
<1>2. Succs(n) \subseteq Node
  BY <1>1, Helpers
<1>3. ASSUME new \subseteq pts[n]
      PROVE  pts' = pts
  BY <1>1, <1>3 DEF GrowPtr
<1> QED
  BY <1>1, <1>2, <1>3 DEF GrowPtr

(* What spreading the objects in O does: the content they have arrives     *)
(* behind each edge, and a node whose IN set grows is marked and queued.   *)
Spread(n, O, C, marked, W) ==
  /\ dfIn' \in [Node -> Content] /\ inUpdated' \in [Node -> SUBSET Obj]
  /\ worklist' \subseteq Node /\ W \subseteq worklist'
  /\ \A m \in Node : marked[m] \subseteq inUpdated'[m]
  /\ \A m \in Node, o \in Obj :
       /\ dfIn[m][o] \subseteq dfIn'[m][o]
       /\ dfIn'[m][o] \subseteq dfIn[m][o] \union C[o]
       /\ dfIn'[m][o] # dfIn[m][o] => o \in inUpdated'[m] /\ m \in worklist'
  /\ \A g \in edges : g.ind /\ g.src = n =>
       \A o \in O \intersect Carried(g) : C[o] \subseteq dfIn'[g.dst][o]
LEMMA PropagateFacts ==
  ASSUME Valid, NEW n \in Node, NEW O \in SUBSET Obj, NEW C \in Content,
         NEW marked \in [Node -> SUBSET Obj], NEW W \in SUBSET Node, Propagate(n, O, C, marked, W)
  PROVE  Spread(n, O, C, marked, W)
<1> DEFINE new == [m \in Node |-> Arrivals(n, O, C, m)]
<1>1. \A m \in Node : Arrivals(n, O, C, m) \subseteq O
  BY DEF Arrivals
<1>2. dfIn' = [m \in Node |-> [o \in Obj |-> IF o \in new[m] THEN dfIn[m][o] \union C[o] ELSE dfIn[m][o]]]
  BY DEF Propagate
<1>3. /\ inUpdated' = [m \in Node |-> marked[m] \union new[m]]
      /\ worklist' = W \union {m \in Node : new[m] # {}}
  BY DEF Propagate
<1>4. dfIn \in [Node -> Content]
  BY DEF Valid, TypeOK, Content
<1>5. dfIn' \in [Node -> Content] /\ inUpdated' \in [Node -> SUBSET Obj]
  BY <1>1, <1>2, <1>3, <1>4 DEF Content
<1>6. \A m \in Node, o \in Obj :
        /\ dfIn[m][o] \subseteq dfIn'[m][o]
        /\ dfIn'[m][o] \subseteq dfIn[m][o] \union C[o]
        /\ dfIn'[m][o] # dfIn[m][o] => o \in inUpdated'[m] /\ m \in worklist'
  BY <1>2, <1>3
<1>7. ASSUME NEW g \in edges, g.ind, g.src = n, NEW o \in O \intersect Carried(g)
      PROVE  C[o] \subseteq dfIn'[g.dst][o]
  <2>1. g \in Edge /\ g.dst \in Node
    BY EdgesJoinNodes DEF Valid, TypeOK
  <2>2. o \in new[g.dst] \/ C[o] \subseteq dfIn[g.dst][o]
    BY <1>7, <2>1 DEF Arrivals
  <2> QED
    BY <1>2, <2>1, <2>2
<1> QED
  BY <1>3, <1>5, <1>6, <1>7 DEF Spread

(* What processing node n may change, W being the work list it starts      *)
(* from: pointers and IN sets only grow, who reads them is queued, and the *)
(* marks and OUT sets of other nodes stay.                                 *)
Frame(n, W) ==
  /\ pts' \in [Var -> SUBSET Obj] /\ inUpdated' \in [Node -> SUBSET Obj]
  /\ dfIn' \in [Node -> Content] /\ dfOut' \in [Node -> Content]
  /\ W \subseteq worklist' /\ worklist' \subseteq Node
  /\ \A v \in Var :
       /\ pts[v] \subseteq pts'[v]
       /\ pts'[v] # pts[v] => v = n /\ Succs(n) \subseteq worklist'
  /\ \A m \in Node, o \in Obj :
       /\ dfIn[m][o] \subseteq dfIn'[m][o]
       /\ dfIn'[m][o] # dfIn[m][o] => o \in inUpdated'[m] /\ m \in worklist'
  /\ \A m \in Node \ {n} : dfOut'[m] = dfOut[m] /\ inUpdated[m] \subseteq inUpdated'[m]

(* A pointer that grows stays within the frame.                            *)
LEMMA GrowFrame ==
  ASSUME Valid, NEW n \in Var, NEW new \in SUBSET Obj, NEW W \in SUBSET Node, GrowPtr(n, new, W),
         UNCHANGED <<dfIn, dfOut>>, inUpdated' \in [Node -> SUBSET Obj],
         \A m \in Node \ {n} : inUpdated'[m] = inUpdated[m]
  PROVE  Frame(n, W)
<1>1. /\ pts' \in [Var -> SUBSET Obj] /\ worklist' \subseteq Node /\ W \subseteq worklist'
      /\ pts'[n] = pts[n] \union new
      /\ \A v \in Var : v # n => pts'[v] = pts[v]
      /\ pts' # pts => Succs(n) \subseteq worklist'
  BY GrowPtrFacts
<1>2. dfIn' \in [Node -> Content] /\ dfOut' \in [Node -> Content]
  BY DEF Valid, TypeOK, Content
<1> QED
  BY <1>1, <1>2 DEF Frame

(* So does each kind of node: an address,                                  *)
LEMMA AddrFrame ==
  ASSUME Valid, NEW n \in Node, NEW W \in SUBSET Node, ProcessAddr(n, W)
  PROVE  Frame(n, W)
<1>1. n \in Var /\ prog.obj[n] \in Obj
  BY ProgramShape DEF Valid, ProcessAddr, Node
<1> QED
  BY <1>1, GrowFrame DEF ProcessAddr, Valid, TypeOK

(* a copy,                                                                 *)
LEMMA CopyFrame ==
  ASSUME Valid, NEW n \in Node, NEW W \in SUBSET Node, ProcessCopy(n, W)
  PROVE  Frame(n, W)
<1>1. n \in Var
  BY ProgramShape DEF Valid, ProcessCopy, Node
<1> QED
  BY <1>1, GrowFrame, Helpers DEF ProcessCopy, Valid, TypeOK

(* a gep,                                                                  *)
LEMMA GepFrame ==
  ASSUME Valid, NEW n \in Node, NEW W \in SUBSET Node, ProcessGep(n, W)
  PROVE  Frame(n, W)
<1>1. n \in Var
  BY ProgramShape DEF Valid, ProcessGep, Node
<1>2. {prog.field[n][o] : o \in SourcePts(n)} \subseteq Obj
  BY <1>1, Helpers, ProgramParts DEF Valid
<1> QED
  BY <1>1, <1>2, GrowFrame DEF ProcessGep, Valid, TypeOK

(* a load, which also clears marks of its own,                             *)
LEMMA LoadFrame ==
  ASSUME Valid, NEW n \in Node, NEW W \in SUBSET Node, ProcessLoad(n, W)
  PROVE  Frame(n, W)
<1>1. n \in Var
  BY ProgramShape DEF Valid, ProcessLoad, Node
<1>2. UNION {dfIn[n][o] : o \in inUpdated[n] \intersect Readable(n)} \subseteq Obj
  BY DEF Valid, TypeOK
<1>3. /\ inUpdated' \in [Node -> SUBSET Obj]
      /\ \A m \in Node \ {n} : inUpdated'[m] = inUpdated[m]
  BY DEF ProcessLoad, Valid, TypeOK
<1> QED
  BY <1>1, <1>2, <1>3, GrowFrame DEF ProcessLoad

(* a region,                                                               *)
LEMMA RegionFrame ==
  ASSUME Valid, NEW n \in Node, NEW W \in SUBSET Node, ProcessRegion(n, W)
  PROVE  Frame(n, W)
<1>1. inUpdated[n] \in SUBSET Obj /\ dfIn[n] \in Content
  BY DEF Valid, TypeOK, Content
<1>2. pts' = pts /\ dfOut' = dfOut /\ Propagate(n, inUpdated[n], dfIn[n], inUpdated, W)
  BY DEF ProcessRegion
<1>3. dfOut \in [Node -> Content] /\ pts \in [Var -> SUBSET Obj] /\ inUpdated \in [Node -> SUBSET Obj]
  BY DEF Valid, TypeOK, Content
<1>4. Spread(n, inUpdated[n], dfIn[n], inUpdated, W)
  BY <1>1, <1>2, <1>3, PropagateFacts
<1>5. /\ dfIn' \in [Node -> Content] /\ inUpdated' \in [Node -> SUBSET Obj]
      /\ worklist' \subseteq Node /\ W \subseteq worklist'
      /\ \A m \in Node : inUpdated[m] \subseteq inUpdated'[m]
      /\ \A m \in Node, o \in Obj :
           /\ dfIn[m][o] \subseteq dfIn'[m][o]
           /\ dfIn'[m][o] # dfIn[m][o] => o \in inUpdated'[m] /\ m \in worklist'
  BY <1>4 DEF Spread
<1> QED
  BY <1>2, <1>3, <1>5 DEF Frame

(* What a store leaves behind it.                                          *)
Passed(n) == inUpdated[n] \ Overwrites(n)
Out(n) == [o \in Obj |-> dfOut[n][o]
             \union (IF o \in Targets(n) \ prog.opaque THEN pts[prog.src[n]] ELSE {})
             \union (IF o \in Passed(n) THEN dfIn[n][o] ELSE {})]

(* A store in the terms of what it leaves behind.                          *)
LEMMA StoreFacts ==
  ASSUME Valid, NEW n \in Node, NEW W \in SUBSET Node, ProcessStore(n, W)
  PROVE  /\ Out(n) \in Content /\ pts' = pts /\ dfOut' = [dfOut EXCEPT ![n] = Out(n)]
         /\ {o \in Obj : Out(n)[o] # dfOut[n][o]} \in SUBSET Obj
         /\ [inUpdated EXCEPT ![n] = @ \ Handled(n)] \in [Node -> SUBSET Obj]
         /\ Propagate(n, {o \in Obj : Out(n)[o] # dfOut[n][o]}, Out(n),
                      [inUpdated EXCEPT ![n] = @ \ Handled(n)], W)
<1>1. prog.src[n] \in Var
  BY ProgramShape DEF Valid, ProcessStore
<1>2. Out(n) \in Content
  BY <1>1 DEF Valid, TypeOK, Out, Passed, Content
<1>3. [inUpdated EXCEPT ![n] = @ \ Handled(n)] \in [Node -> SUBSET Obj]
  BY DEF Valid, TypeOK
<1>4. /\ pts' = pts /\ dfOut' = [dfOut EXCEPT ![n] = Out(n)]
      /\ Propagate(n, {o \in Obj : Out(n)[o] # dfOut[n][o]}, Out(n),
                   [inUpdated EXCEPT ![n] = @ \ Handled(n)], W)
  BY DEF ProcessStore, Out, Passed
<1> QED
  BY <1>2, <1>3, <1>4

(* A store stays within the frame,                                         *)
LEMMA StoreFrame ==
  ASSUME Valid, NEW n \in Node, NEW W \in SUBSET Node, ProcessStore(n, W)
  PROVE  Frame(n, W)
<1>1. dfOut \in [Node -> Content] /\ pts \in [Var -> SUBSET Obj] /\ inUpdated \in [Node -> SUBSET Obj]
  BY DEF Valid, TypeOK, Content
<1>2. /\ Out(n) \in Content /\ pts' = pts /\ dfOut' = [dfOut EXCEPT ![n] = Out(n)]
      /\ {o \in Obj : Out(n)[o] # dfOut[n][o]} \in SUBSET Obj
      /\ [inUpdated EXCEPT ![n] = @ \ Handled(n)] \in [Node -> SUBSET Obj]
      /\ Propagate(n, {o \in Obj : Out(n)[o] # dfOut[n][o]}, Out(n),
                   [inUpdated EXCEPT ![n] = @ \ Handled(n)], W)
  BY StoreFacts
<1>3. Spread(n, {o \in Obj : Out(n)[o] # dfOut[n][o]}, Out(n), [inUpdated EXCEPT ![n] = @ \ Handled(n)], W)
  BY <1>2, PropagateFacts
<1>4. /\ dfIn' \in [Node -> Content] /\ inUpdated' \in [Node -> SUBSET Obj]
      /\ worklist' \subseteq Node /\ W \subseteq worklist'
      /\ \A m \in Node : [inUpdated EXCEPT ![n] = @ \ Handled(n)][m] \subseteq inUpdated'[m]
      /\ \A m \in Node, o \in Obj :
           /\ dfIn[m][o] \subseteq dfIn'[m][o]
           /\ dfIn'[m][o] # dfIn[m][o] => o \in inUpdated'[m] /\ m \in worklist'
  BY <1>3 DEF Spread
<1>5. \A m \in Node \ {n} : dfOut'[m] = dfOut[m] /\ inUpdated[m] \subseteq inUpdated'[m]
  BY <1>1, <1>2, <1>4
<1>6. dfOut' \in [Node -> Content]
  BY <1>1, <1>2
<1> QED
  BY <1>1, <1>2, <1>4, <1>5, <1>6 DEF Frame

(* and with it every node.                                                 *)
LEMMA NodeFrame ==
  ASSUME Valid, NEW n \in Node, NEW W \in SUBSET Node, ProcessSVFGNode(n, W)
  PROVE  Frame(n, W)
<1>1. ASSUME SkipStore(n, W)
      PROVE  Frame(n, W)
  BY <1>1 DEF SkipStore, ptVars, Frame, Valid, TypeOK, Content
<1> QED
  BY <1>1, AddrFrame, CopyFrame, GepFrame, LoadFrame, RegionFrame, StoreFrame DEF ProcessSVFGNode

(* Processing a node, from either place, in the terms of the model.        *)
ProcessStep(n, W) ==
  /\ n \in Node /\ W \subseteq worklist
  /\ pc = "process" /\ UNCHANGED <<prog, pc, graphVars, before, edgesLeft>>
  /\ n \in stack \union worklist
  /\ (stack' \union W) \union {n} = stack \union worklist /\ stack' \subseteq stack
  /\ ProcessSVFGNode(n, W)

(* Both places a node is taken from are covered.                           *)
LEMMA ProcessSteps ==
  ASSUME Valid, ProcessNode \/ PostProcessNode
  PROVE  \E n, W : ProcessStep(n, W)
<1>1. ASSUME ProcessNode
      PROVE  \E n, W : ProcessStep(n, W)
  <2>1. PICK n \in stack : stack' = stack \ {n} /\ ProcessSVFGNode(n, worklist)
    BY <1>1 DEF ProcessNode
  <2>2. pc = "process" /\ UNCHANGED <<prog, pc, graphVars, before, edgesLeft>>
    BY <1>1 DEF ProcessNode
  <2>3. ProcessStep(n, worklist)
    BY <2>1, <2>2 DEF ProcessStep, Valid, TypeOK
  <2> QED
    BY <2>3
<1>2. ASSUME PostProcessNode
      PROVE  \E n, W : ProcessStep(n, W)
  <2>1. PICK n \in worklist : ProcessSVFGNode(n, worklist \ {n})
    BY <1>2 DEF PostProcessNode
  <2>2. pc = "process" /\ UNCHANGED <<prog, pc, graphVars, stack, before, edgesLeft>>
    BY <1>2 DEF PostProcessNode
  <2>3. ProcessStep(n, worklist \ {n})
    BY <2>1, <2>2 DEF ProcessStep, Valid, TypeOK
  <2> QED
    BY <2>3
<1> QED
  BY <1>1, <1>2

(* Reachability relates nodes.                                             *)
LEMMA ReachingType ==
  ASSUME NEW E \in SUBSET Edge
  PROVE  Reaching(E) \in [Node -> SUBSET Node]
  BY DEF Reaching

(* What resolving calls adds: calls that the points-to sets allow.         *)
LEMMA CallFacts ==
  ASSUME Valid, UpdateCallGraph
  PROVE  \E new \in SUBSET prog.icalls :
           /\ \A c \in new : c.target \in pts[c.fp]
           /\ called' = called \union {c.id : c \in new}
           /\ edges' = edges \union UNION {c.edges : c \in new}
           /\ edgesLeft' = (UNION {c.edges : c \in new}) \ edges
           /\ pc' = IF new = {} THEN "done" ELSE "connect"
<1> DEFINE new == {c \in prog.icalls : c.target \in pts[c.fp] /\ c.id \notin called}
<1>1. /\ new \subseteq prog.icalls
      /\ \A c \in new : c.target \in pts[c.fp]
      /\ called' = called \union {c.id : c \in new}
      /\ edges' = edges \union UNION {c.edges : c \in new}
      /\ edgesLeft' = (UNION {c.edges : c \in new}) \ edges
      /\ pc' = IF new = {} THEN "done" ELSE "connect"
  BY DEF UpdateCallGraph
<1> HIDE DEF new
<1> QED
  BY <1>1

(* What connecting one edge does: along an edge through memory all that    *)
(* its source holds arrives, and is marked where it is new.                *)
Joined(g) ==
  /\ edgesLeft' = edgesLeft \ {g}
  /\ dfIn' \in [Node -> Content] /\ inUpdated' \in [Node -> SUBSET Obj] /\ worklist' \subseteq Node
  /\ \A m \in Node : inUpdated[m] \subseteq inUpdated'[m]
  /\ \A m \in Node, o \in Obj :
       /\ dfIn[m][o] \subseteq dfIn'[m][o]
       /\ dfIn'[m][o] \subseteq dfIn[m][o] \union ContentAt(g.src)[o]
       /\ dfIn'[m][o] # dfIn[m][o] => o \in inUpdated'[m]
  /\ g.ind => \A o \in Carried(g) : ContentAt(g.src)[o] \subseteq dfIn'[g.dst][o]

(* A connected edge is a new one, and all that its source holds is sent    *)
(* along it.                                                               *)
LEMMA ConnectFacts ==
  ASSUME Valid, ConnectEdge
  PROVE  \E g \in edgesLeft : Joined(g)
<1>1. PICK g \in edgesLeft :
        /\ edgesLeft' = edgesLeft \ {g}
        /\ \/ /\ ~g.ind
              /\ worklist' = worklist \union {g.dst} /\ UNCHANGED <<dfIn, inUpdated>>
           \/ /\ g.ind
              /\ dfIn' = [dfIn EXCEPT ![g.dst] =
                   [o \in Obj |-> IF o \in PropAfterCGUpdated(g) THEN @[o] \union ContentAt(g.src)[o] ELSE @[o]]]
              /\ inUpdated' = [inUpdated EXCEPT ![g.dst] = @ \union PropAfterCGUpdated(g)]
              /\ worklist' = IF PropAfterCGUpdated(g) = {} THEN worklist ELSE worklist \union {g.dst}
  BY DEF ConnectEdge
<1>2. /\ g.dst \in Node /\ Carried(g) \subseteq Obj /\ PropAfterCGUpdated(g) \subseteq Obj
      /\ ContentAt(g.src) \in Content
  BY EdgesJoinNodes, Helpers DEF Valid, TypeOK, PropAfterCGUpdated, Fresh, ContentAt, Content
<1>3. dfIn \in [Node -> Content] /\ inUpdated \in [Node -> SUBSET Obj] /\ worklist \subseteq Node
  BY DEF Valid, TypeOK, Content
<1>4. CASE ~g.ind
  BY <1>1, <1>2, <1>3, <1>4 DEF Joined, Content
<1>5. CASE g.ind
  <2> DEFINE new == PropAfterCGUpdated(g)
             fill == [o \in Obj |-> IF o \in new THEN dfIn[g.dst][o] \union ContentAt(g.src)[o] ELSE dfIn[g.dst][o]]
  <2>1. /\ dfIn' = [dfIn EXCEPT ![g.dst] = fill]
        /\ inUpdated' = [inUpdated EXCEPT ![g.dst] = @ \union new]
        /\ worklist' = IF new = {} THEN worklist ELSE worklist \union {g.dst}
    BY <1>1, <1>5
  <2>2. new \subseteq Obj /\ \A o \in Carried(g) \ new : ContentAt(g.src)[o] \subseteq dfIn[g.dst][o]
    BY <1>2 DEF PropAfterCGUpdated, Fresh
  <2>3. fill \in Content
    BY <1>2, <1>3 DEF Content
  <2> HIDE DEF new
  <2>4. dfIn' \in [Node -> Content] /\ inUpdated' \in [Node -> SUBSET Obj] /\ worklist' \subseteq Node
    BY <1>2, <1>3, <2>1, <2>2, <2>3
  <2>5. \A m \in Node, o \in Obj :
          /\ dfIn[m][o] \subseteq dfIn'[m][o]
          /\ dfIn'[m][o] \subseteq dfIn[m][o] \union ContentAt(g.src)[o]
          /\ dfIn'[m][o] # dfIn[m][o] => o \in inUpdated'[m]
    BY <1>2, <1>3, <2>1, <2>2
  <2>6. \A o \in Carried(g) : ContentAt(g.src)[o] \subseteq dfIn'[g.dst][o]
    BY <1>2, <1>3, <2>1, <2>2
  <2>7. \A m \in Node : inUpdated[m] \subseteq inUpdated'[m]
    BY <1>2, <1>3, <2>1, <2>2
  <2> QED
    BY <1>1, <2>4, <2>5, <2>6, <2>7 DEF Joined
<1> QED
  BY <1>4, <1>5

(* Types hold at first,                                                    *)
LEMMA InitType == Init => Valid
<1> SUFFICES ASSUME Init PROVE Valid
  OBVIOUS
<1>1. prog \in Programs
  BY DEF Init
<1> QED
  BY <1>1, ProgramParts DEF Init, Valid, TypeOK, Nothing

(* and every step keeps them.                                              *)
LEMMA NextType == Valid /\ [Next]_vars => Valid'
<1> SUFFICES ASSUME Valid, [Next]_vars PROVE Valid'
  OBVIOUS
<1> USE DEF Valid
<1>1. CASE Solve
  <2>1. SVFGNodes(prog) \subseteq Node /\ Reaching(edges) \in [Node -> SUBSET Node]
    BY EdgesJoinNodes, ReachingType DEF TypeOK
  <2> QED
    BY <1>1, <2>1 DEF Solve, TypeOK, ptVars
<1>2. CASE ProcessNode \/ PostProcessNode
  <2>1. PICK n, W : ProcessStep(n, W)
    BY <1>2, ProcessSteps
  <2>2. n \in Node /\ W \in SUBSET Node
    BY <2>1 DEF ProcessStep, TypeOK
  <2>3. Frame(n, W)
    BY <2>1, <2>2, NodeFrame DEF ProcessStep
  <2>4. /\ UNCHANGED <<prog, pc, edges, called, sccCalls, before, edgesLeft>> /\ stack' \subseteq stack
    BY <2>1 DEF ProcessStep, graphVars
  <2>5. /\ pts' \in [Var -> SUBSET Obj] /\ inUpdated' \in [Node -> SUBSET Obj] /\ worklist' \subseteq Node
        /\ dfIn' \in [Node -> [Obj -> SUBSET Obj]] /\ dfOut' \in [Node -> [Obj -> SUBSET Obj]]
    BY <2>3 DEF Frame, Content
  <2> QED
    BY <2>4, <2>5 DEF TypeOK
<1>3. CASE UpdateCallGraph
  <2>1. PICK new \in SUBSET prog.icalls :
          /\ called' = called \union {c.id : c \in new}
          /\ edges' = edges \union UNION {c.edges : c \in new}
          /\ edgesLeft' = (UNION {c.edges : c \in new}) \ edges
          /\ pc' = IF new = {} THEN "done" ELSE "connect"
    BY <1>3, CallFacts
  <2>2. UNION {c.edges : c \in new} \subseteq Edge /\ {c.id : c \in new} \subseteq CallId
    BY <2>1, ProgramParts
  <2> QED
    BY <1>3, <2>1, <2>2 DEF UpdateCallGraph, TypeOK, ptVars
<1>4. CASE ConnectEdge
  <2>1. PICK g \in edgesLeft : Joined(g)
    BY <1>4, ConnectFacts
  <2> QED
    BY <1>4, <2>1 DEF Joined, ConnectEdge, TypeOK, graphVars, Content
<1>5. CASE FinishConnect
  BY <1>5 DEF FinishConnect, TypeOK, ptVars, graphVars
<1>6. CASE UNCHANGED vars
  BY <1>6 DEF vars, TypeOK, ptVars, graphVars
<1> QED
  BY <1>1, <1>2, <1>3, <1>4, <1>5, <1>6 DEF Next, Step, Terminated

(* Every set the analysis keeps has its type in every program.             *)
THEOREM TypeCorrect == Spec => []TypeOK
<1>1. Valid => TypeOK
  BY DEF Valid
<1> QED
  BY <1>1, InitType, NextType, PTL DEF Spec
-----------------------------------------------------------------------------
(* Precision.                                                              *)

(* The edges the pre-analysis has taken into account.                      *)
AnderEdges(p) == p.edges \union UNION {c.edges : c \in {i \in p.icalls : i.target \in p.ander[i.fp]}}

Bounded ==
  /\ edges \subseteq AnderEdges(prog)
  /\ \A v \in Var : pts[v] \subseteq prog.ander[v]
  /\ \A n \in Node, o \in Obj : dfIn[n][o] \subseteq prog.ander[o] /\ dfOut[n][o] \subseteq prog.ander[o]

(* What is copied into a pointer stays within the bound.                   *)
LEMMA SourcesBounded ==
  ASSUME Valid, Bounded, NEW n \in Var
  PROVE  /\ prog.kind[n] = "copy" => SourcePts(n) \subseteq prog.ander[n]
         /\ prog.kind[n] = "gep" => \A o \in SourcePts(n) : prog.field[n][o] \in prog.ander[n]
<1>1. \A g \in edges : ~g.ind /\ prog.kind[g.dst] \in {"copy", "gep"} => Holds(prog, g)
  BY ProgramShape DEF Valid, Bounded, AnderEdges, PreAnalysed
<1>2. \A v \in Sources(n) \intersect Var :
        \E g \in edges : g.src = v /\ g.dst = n /\ ~g.ind /\ pts[v] \subseteq prog.ander[v]
  BY DEF Sources, Bounded
<1>3. ASSUME prog.kind[n] = "copy", NEW v \in Sources(n) \intersect Var
      PROVE  pts[v] \subseteq prog.ander[n]
  BY <1>1, <1>2, <1>3 DEF Holds
<1>4. ASSUME prog.kind[n] = "gep", NEW v \in Sources(n) \intersect Var, NEW o \in pts[v]
      PROVE  prog.field[n][o] \in prog.ander[n]
  BY <1>1, <1>2, <1>4 DEF Holds
<1> QED
  BY <1>3, <1>4 DEF SourcePts

(* So does what a load reads.                                              *)
LEMMA LoadBounded ==
  ASSUME Valid, Bounded, FieldsCovered(prog), NEW n \in Var, prog.kind[n] = "load"
  PROVE  \A o \in Readable(n) : dfIn[n][o] \subseteq prog.ander[n]
<1>1. prog.src[n] \in Var /\ n \in Node
  BY ProgramShape DEF Valid, Node
<1>2. \A x \in prog.ander[prog.src[n]] : prog.ander[x] \subseteq prog.ander[n]
  BY ProgramShape DEF Valid, PreAnalysed
<1>3. \A x \in prog.ander[prog.src[n]] \ prog.opaque : \A f \in prog.parts[x] : prog.ander[f] \subseteq prog.ander[n]
  BY DEF FieldsCovered
<1>4. \A o \in Readable(n) : o \in Obj /\ prog.ander[o] \subseteq prog.ander[n]
  BY <1>1, <1>2, <1>3, Helpers DEF Readable, AllFields, Bounded
<1> QED
  BY <1>1, <1>4 DEF Bounded

(* No statement takes a set out of its bound.                              *)
LEMMA NodeBounded ==
  ASSUME Valid, Bounded, FieldsCovered(prog), UNCHANGED <<prog, edges>>,
         NEW n \in Node, NEW W \in SUBSET Node, ProcessSVFGNode(n, W)
  PROVE  Bounded'
<1>1. ASSUME n \in Var, NEW new \in SUBSET Obj, GrowPtr(n, new, W), UNCHANGED <<dfIn, dfOut>>,
             new \subseteq prog.ander[n]
      PROVE  Bounded'
  BY <1>1, GrowPtrFacts DEF Bounded
<1>2. CASE ProcessAddr(n, W)
  <2>1. n \in Var /\ prog.obj[n] \in Obj /\ prog.obj[n] \in prog.ander[n]
    BY <1>2, ProgramShape DEF Valid, ProcessAddr, Node, PreAnalysed
  <2> QED
    BY <1>1, <1>2, <2>1 DEF ProcessAddr
<1>3. CASE ProcessCopy(n, W)
  <2>1. n \in Var
    BY <1>3, ProgramShape DEF Valid, ProcessCopy, Node
  <2>2. SourcePts(n) \in SUBSET Obj /\ SourcePts(n) \subseteq prog.ander[n]
    BY <1>3, <2>1, SourcesBounded, Helpers DEF ProcessCopy
  <2> QED
    BY <1>1, <1>3, <2>1, <2>2 DEF ProcessCopy
<1>4. CASE ProcessGep(n, W)
  <2>1. n \in Var
    BY <1>4, ProgramShape DEF Valid, ProcessGep, Node
  <2>2. {prog.field[n][o] : o \in SourcePts(n)} \in SUBSET Obj
    BY <2>1, Helpers, ProgramParts DEF Valid
  <2>3. {prog.field[n][o] : o \in SourcePts(n)} \subseteq prog.ander[n]
    BY <1>4, <2>1, SourcesBounded DEF ProcessGep
  <2> QED
    BY <1>1, <1>4, <2>1, <2>2, <2>3 DEF ProcessGep
<1>5. CASE ProcessLoad(n, W)
  <2>1. n \in Var
    BY <1>5, ProgramShape DEF Valid, ProcessLoad, Node
  <2>2. UNION {dfIn[n][o] : o \in inUpdated[n] \intersect Readable(n)} \in SUBSET Obj
    BY DEF Valid, TypeOK
  <2>3. UNION {dfIn[n][o] : o \in inUpdated[n] \intersect Readable(n)} \subseteq prog.ander[n]
    BY <1>5, <2>1, LoadBounded DEF ProcessLoad
  <2> QED
    BY <1>1, <1>5, <2>1, <2>2, <2>3 DEF ProcessLoad
<1>6. ASSUME NEW O \in SUBSET Obj, NEW C \in Content, NEW marked \in [Node -> SUBSET Obj],
             \A o \in Obj : C[o] \subseteq prog.ander[o], Propagate(n, O, C, marked, W)
      PROVE  \A m \in Node, o \in Obj : dfIn'[m][o] \subseteq prog.ander[o]
  <2>1. Spread(n, O, C, marked, W)
    BY <1>6, PropagateFacts
  <2> QED
    BY <1>6, <2>1 DEF Spread, Bounded
<1>7. CASE ProcessRegion(n, W)
  <2>1. /\ inUpdated[n] \in SUBSET Obj /\ inUpdated \in [Node -> SUBSET Obj]
        /\ dfIn[n] \in Content /\ \A o \in Obj : dfIn[n][o] \subseteq prog.ander[o]
    BY DEF Valid, TypeOK, Content, Bounded
  <2>2. pts' = pts /\ dfOut' = dfOut /\ Propagate(n, inUpdated[n], dfIn[n], inUpdated, W)
    BY <1>7 DEF ProcessRegion
  <2>3. \A m \in Node, o \in Obj : dfIn'[m][o] \subseteq prog.ander[o]
    BY <1>6, <2>1, <2>2
  <2> QED
    BY <2>2, <2>3 DEF Bounded
<1>8. CASE ProcessStore(n, W)
  <2>1. prog.kind[n] = "store" /\ n \in Mem /\ prog.src[n] \in Var /\ prog.dst[n] \in Var
    BY <1>8, ProgramShape DEF Valid, ProcessStore
  <2>2. \A o \in Targets(n) : pts[prog.src[n]] \subseteq prog.ander[o]
    BY <2>1, ProgramShape DEF Valid, PreAnalysed, Targets, Bounded
  <2>3. \A o \in Obj : Out(n)[o] \subseteq prog.ander[o]
    BY <2>2 DEF Out, Bounded
  <2>4. \A m \in Node, o \in Obj : dfIn'[m][o] \subseteq prog.ander[o]
    BY <1>6, <1>8, <2>3, StoreFacts
  <2>5. pts' = pts /\ dfOut' = [dfOut EXCEPT ![n] = Out(n)] /\ dfOut \in [Node -> Content]
    BY <1>8, StoreFacts DEF Valid, TypeOK, Content
  <2> QED
    BY <2>3, <2>4, <2>5 DEF Bounded
<1>9. CASE SkipStore(n, W)
  BY <1>9 DEF SkipStore, ptVars, Bounded
<1> QED
  BY <1>2, <1>3, <1>4, <1>5, <1>7, <1>8, <1>9 DEF ProcessSVFGNode

(* Neither does any other step.                                            *)
LEMMA NextBounded ==
  ASSUME Valid, Bounded, FieldsCovered(prog), [Next]_vars
  PROVE  Bounded'
<1>1. CASE Solve
  BY <1>1 DEF Solve, ptVars, Bounded
<1>2. CASE ProcessNode \/ PostProcessNode
  <2>1. PICK n, W : ProcessStep(n, W)
    BY <1>2, ProcessSteps
  <2>2. /\ n \in Node /\ W \in SUBSET Node /\ UNCHANGED <<prog, edges>> /\ ProcessSVFGNode(n, W)
    BY <2>1 DEF ProcessStep, graphVars, Valid, TypeOK
  <2> QED
    BY <2>2, NodeBounded
<1>3. CASE UpdateCallGraph
  <2>1. PICK new \in SUBSET prog.icalls :
          /\ \A c \in new : c.target \in pts[c.fp]
          /\ edges' = edges \union UNION {c.edges : c \in new}
    BY <1>3, CallFacts
  <2>2. \A c \in new : c.target \in prog.ander[c.fp]
    BY <2>1, ProgramParts DEF Bounded, Valid
  <2>3. edges' \subseteq AnderEdges(prog)
    BY <2>1, <2>2 DEF AnderEdges, Bounded
  <2> QED
    BY <1>3, <2>3 DEF UpdateCallGraph, ptVars, Bounded
<1>4. CASE ConnectEdge
  <2>1. PICK g \in edgesLeft : Joined(g)
    BY <1>4, ConnectFacts
  <2>2. g.src \in Node
    BY EdgesJoinNodes DEF Valid, TypeOK
  <2>3. \A o \in Obj : ContentAt(g.src)[o] \subseteq prog.ander[o]
    BY <2>2 DEF ContentAt, Bounded
  <2>4. \A m \in Node, o \in Obj : dfIn'[m][o] \subseteq prog.ander[o]
    BY <2>1, <2>3 DEF Joined, Bounded
  <2> QED
    BY <1>4, <2>4 DEF ConnectEdge, graphVars, Bounded
<1>5. CASE FinishConnect
  BY <1>5 DEF FinishConnect, ptVars, graphVars, Bounded
<1>6. CASE UNCHANGED vars
  BY <1>6 DEF vars, ptVars, graphVars, Bounded
<1> QED
  BY <1>1, <1>2, <1>3, <1>4, <1>5, <1>6 DEF Next, Step, Terminated

(* In every program whose structures are not read as a whole, whatever the *)
(* order of the nodes and the calls found on the way, no pointer gets a    *)
(* pointee that the pre-analysis rules out.                                *)
THEOREM StaysWithinPreAnalysis == Spec => []RefinesPreAnalysis
<1> DEFINE Inv == Valid /\ (FieldsCovered(prog) => Bounded)
<1>1. Init => Inv
  <2>1. Init => Bounded
    BY DEF Init, Bounded, AnderEdges, Nothing
  <2> QED
    BY <2>1, InitType
<1>2. Inv /\ [Next]_vars => Inv'
  <2> SUFFICES ASSUME Inv, [Next]_vars PROVE Inv'
    OBVIOUS
  <2>1. Valid'
    BY NextType
  <2>2. prog' = prog
    BY DEF Next, Step, Solve, ProcessNode, PostProcessNode, UpdateCallGraph, ConnectEdge, FinishConnect,
           Terminated, vars
  <2>3. FieldsCovered(prog)' => FieldsCovered(prog)
    BY <2>2 DEF FieldsCovered
  <2>4. FieldsCovered(prog) => Bounded'
    BY NextBounded
  <2> QED
    BY <2>1, <2>3, <2>4
<1>3. Inv => RefinesPreAnalysis
  BY DEF RefinesPreAnalysis, Bounded
<1> QED
  BY <1>1, <1>2, <1>3, PTL DEF Spec
-----------------------------------------------------------------------------
(* Nothing is lost.                                                        *)

(* The value-flow graph grows from the program's by edges of its calls.    *)
Known ==
  /\ prog.edges \subseteq edges /\ edges \subseteq prog.edges \union CallEdges(prog)
  /\ edgesLeft \subseteq edges /\ (pc # "connect" => edgesLeft = {})

(* What has arrived at a node and has not gone on is marked there.         *)
Kept(n) ==
  \A o \in Obj :
    /\ prog.kind[n] = "load" => dfIn[n][o] \subseteq pts[n] \/ o \in inUpdated[n]
    /\ prog.kind[n] = "store" => dfIn[n][o] \subseteq dfOut[n][o] \/ o \in inUpdated[n]

(* What has not come through an edge is marked at a region.                *)
InTransit(g) ==
  \A o \in Carried(g) :
    \/ ContentAt(g.src)[o] \subseteq dfIn[g.dst][o]
    \/ prog.kind[g.src] # "store" /\ o \in inUpdated[g.src]

Marks ==
  /\ \A n \in Node : Kept(n)
  /\ \A g \in edges \ edgesLeft : g.ind => InTransit(g)

(* A node that is not due has passed on what reaches it.                   *)
Done(n) == Satisfied(n) /\ \A g \in edges : g.ind /\ g.src = n => Delivered(g)
Settled ==
  pc \in {"process", "done"} => \A n \in SVFGNodes(prog) \ (stack \union worklist) : Done(n)

IInv == Known /\ Marks /\ Settled

(* A node that is not queued by the end reads what it read before.         *)
LEMMA SameInputs ==
  ASSUME Valid, Known, UNCHANGED <<prog, graphVars>>, NEW n \in Node, NEW W \in SUBSET Node, Frame(n, W),
         NEW m \in Node, m \notin worklist'
  PROVE  /\ SourcePts(m)' = SourcePts(m)
         /\ \A v \in Operands(prog, m) : v \in Var /\ pts'[v] = pts[v]
         /\ dfIn'[m] = dfIn[m]
<1>1. \A v \in Var : m \in Succs(v) => pts'[v] = pts[v]
  BY DEF Frame
<1>2. \A v \in Sources(m) : m \in Succs(v)
  BY DEF Sources, Succs
<1>3. Sources(m)' = Sources(m)
  BY DEF Sources, graphVars
<1>4. SourcePts(m)' = SourcePts(m)
  BY <1>1, <1>2, <1>3 DEF SourcePts
<1>5. ASSUME NEW v \in Operands(prog, m)
      PROVE  v \in Var /\ m \in Succs(v)
  <2>1. PICK g \in prog.edges : ~g.ind /\ g.src = v /\ g.dst = m
    BY <1>5, ProgramShape DEF Valid, Connected
  <2>2. g \in edges /\ g \in Edge
    BY <2>1 DEF Known, Valid, TypeOK
  <2> QED
    BY <2>1, <2>2, EdgesJoinNodes DEF Succs, Valid
<1>6. dfIn \in [Node -> Content] /\ dfIn' \in [Node -> Content]
  BY DEF Valid, TypeOK, Content, Frame
<1>7. \A o \in Obj : dfIn'[m][o] = dfIn[m][o]
  BY DEF Frame
<1> QED
  BY <1>1, <1>4, <1>5, <1>6, <1>7 DEF Content

(* What a store overwrites depends on its pointer and on the calls.        *)
LEMMA SameOverwrites ==
  ASSUME UNCHANGED <<prog, graphVars>>, NEW m, pts'[prog.dst[m]] = pts[prog.dst[m]]
  PROVE  Targets(m)' = Targets(m) /\ Overwrites(m)' = Overwrites(m)
BY DEF Targets, Overwrites, graphVars

(* Processing one node leaves the others as they are, unless it queues     *)
(* them.                                                                   *)
LEMMA OthersDone ==
  ASSUME Valid, Known, UNCHANGED <<prog, graphVars>>, NEW n \in Node, NEW W \in SUBSET Node, Frame(n, W),
         NEW m \in Node, m # n, m \notin worklist', Done(m)
  PROVE  Done(m)'
<1>1. /\ SourcePts(m)' = SourcePts(m)
      /\ \A v \in Operands(prog, m) : v \in Var /\ pts'[v] = pts[v]
      /\ dfIn'[m] = dfIn[m]
  BY SameInputs
<1>2. dfOut'[m] = dfOut[m] /\ \A v \in Var : pts[v] \subseteq pts'[v]
  BY DEF Frame
<1>3. prog' = prog /\ edges' = edges
  BY DEF graphVars
<1>4. prog.kind[m] \in {"addr", "copy", "gep", "load", "store", "mr"}
  BY ProgramParts DEF Valid
<1>5. prog.kind[m] \in {"addr", "copy", "gep", "load"} => m \in Var
  BY ProgramShape DEF Valid, Node
<1>6. Satisfied(m)'
  <2>1. CASE prog.kind[m] = "addr"
    BY <1>2, <1>3, <1>5, <2>1 DEF Done, Satisfied
  <2>2. CASE prog.kind[m] = "copy"
    BY <1>1, <1>2, <1>3, <1>5, <2>2 DEF Done, Satisfied
  <2>3. CASE prog.kind[m] = "gep"
    BY <1>1, <1>2, <1>3, <1>5, <2>3 DEF Done, Satisfied
  <2>4. CASE prog.kind[m] = "load"
    <3>1. Readable(m)' = Readable(m)
      BY <1>1, <1>3, <2>4 DEF Operands, Readable, AllFields
    <3> QED
      BY <1>1, <1>2, <1>3, <1>5, <2>4, <3>1 DEF Done, Satisfied
  <2>5. CASE prog.kind[m] = "store"
    <3>1. pts'[prog.src[m]] = pts[prog.src[m]] /\ pts'[prog.dst[m]] = pts[prog.dst[m]]
      BY <1>1, <2>5 DEF Operands
    <3>2. Targets(m)' = Targets(m) /\ Overwrites(m)' = Overwrites(m)
      BY <3>1, SameOverwrites
    <3> QED
      BY <1>1, <1>2, <1>3, <2>5, <3>1, <3>2 DEF Done, Satisfied
  <2>6. CASE prog.kind[m] = "mr"
    BY <1>3, <2>6 DEF Satisfied
  <2> QED
    BY <1>4, <2>1, <2>2, <2>3, <2>4, <2>5, <2>6
<1>7. ASSUME NEW g \in edges, g.ind, g.src = m
      PROVE  Delivered(g)'
  <2>1. g \in Edge /\ g.dst \in Node /\ Carried(g) \subseteq Obj
    BY EdgesJoinNodes, Helpers DEF Valid, TypeOK
  <2>2. Delivered(g)
    BY <1>7 DEF Done
  <2>3. ContentAt(g.src)' = ContentAt(g.src) /\ Carried(g)' = Carried(g)
    BY <1>1, <1>2, <1>3, <1>7 DEF ContentAt, Carried, AllFields
  <2>4. \A o \in Obj : dfIn[g.dst][o] \subseteq dfIn'[g.dst][o]
    BY <2>1 DEF Frame
  <2> QED
    BY <2>1, <2>2, <2>3, <2>4 DEF Delivered
<1> QED
  BY <1>3, <1>6, <1>7 DEF Done

(* Nor does it touch what other nodes have marked.                         *)
LEMMA OthersMarked ==
  ASSUME Valid, Known, UNCHANGED <<prog, graphVars>>, NEW n \in Node, NEW W \in SUBSET Node, Frame(n, W)
  PROVE  /\ \A m \in Node \ {n} : Kept(m) => Kept(m)'
         /\ \A g \in edges : g.ind /\ g.src # n /\ InTransit(g) => InTransit(g)'
<1>1. ASSUME NEW m \in Node, m # n, Kept(m)
      PROVE  Kept(m)'
  <2>1. prog' = prog /\ (prog.kind[m] = "load" => m \in Var)
    BY ProgramShape DEF Valid, Node
  <2>2. dfOut'[m] = dfOut[m] /\ inUpdated[m] \subseteq inUpdated'[m]
    BY <1>1 DEF Frame
  <2>3. \A o \in Obj : dfIn'[m][o] = dfIn[m][o] \/ o \in inUpdated'[m]
    BY DEF Frame
  <2>4. m \in Var => pts[m] \subseteq pts'[m]
    BY DEF Frame
  <2> QED
    BY <1>1, <2>1, <2>2, <2>3, <2>4 DEF Kept
<1>2. ASSUME NEW g \in edges, g.ind, g.src # n, InTransit(g)
      PROVE  InTransit(g)'
  <2>1. g \in Edge /\ g.src \in Node /\ g.dst \in Node /\ Carried(g) \subseteq Obj
    BY EdgesJoinNodes, Helpers DEF Valid, TypeOK
  <2>2. prog' = prog /\ Carried(g)' = Carried(g)
    BY DEF Carried, AllFields
  <2>3. dfOut'[g.src] = dfOut[g.src] /\ inUpdated[g.src] \subseteq inUpdated'[g.src]
    BY <1>2, <2>1 DEF Frame
  <2>4. \A o \in Obj : dfIn[g.dst][o] \subseteq dfIn'[g.dst][o]
    BY <2>1 DEF Frame
  <2>5. \A o \in Obj : dfIn'[g.src][o] = dfIn[g.src][o] \/ o \in inUpdated'[g.src]
    BY <2>1 DEF Frame
  <2> QED
    BY <1>2, <2>1, <2>2, <2>3, <2>4, <2>5 DEF InTransit, ContentAt
<1> QED
  BY <1>1, <1>2

(* The node that is processed has passed on all that reaches it, unless it *)
(* has queued itself.                                                      *)
Passes(n) ==
  /\ n \notin worklist' => Satisfied(n)'
  /\ Kept(n)'
  /\ \A g \in edges : g.ind /\ g.src = n => InTransit(g)'
  /\ n \notin worklist' => \A g \in edges : g.ind /\ g.src = n => Delivered(g)'

(* That is so for addresses, copies and geps,                              *)
LEMMA PointerPasses ==
  ASSUME Valid, Known, UNCHANGED <<prog, graphVars>>, NEW n \in Node, NEW W \in SUBSET Node, Frame(n, W),
         ProcessAddr(n, W) \/ ProcessCopy(n, W) \/ ProcessGep(n, W)
  PROVE  Passes(n)
<1>1. prog.kind[n] \in {"addr", "copy", "gep"} /\ n \in Var /\ n \notin Mem
  BY ProgramShape DEF Valid, Node, ProcessAddr, ProcessCopy, ProcessGep
<1>2. prog' = prog /\ (n \notin worklist' => SourcePts(n)' = SourcePts(n))
  BY SameInputs
<1>3. Satisfied(n)' \/ n \in worklist'
  <2>1. CASE ProcessAddr(n, W)
    <3>1. prog.kind[n] = "addr" /\ {prog.obj[n]} \in SUBSET Obj /\ GrowPtr(n, {prog.obj[n]}, W)
      BY <1>1, <2>1, ProgramShape DEF ProcessAddr, Valid
    <3>2. pts'[n] = pts[n] \union {prog.obj[n]}
      BY <1>1, <3>1, GrowPtrFacts
    <3> QED
      BY <1>2, <3>1, <3>2 DEF Satisfied
  <2>2. CASE ProcessCopy(n, W)
    <3>1. prog.kind[n] = "copy" /\ SourcePts(n) \in SUBSET Obj /\ GrowPtr(n, SourcePts(n), W)
      BY <2>2, Helpers DEF ProcessCopy
    <3>2. pts'[n] = pts[n] \union SourcePts(n)
      BY <1>1, <3>1, GrowPtrFacts
    <3> QED
      BY <1>2, <3>1, <3>2 DEF Satisfied
  <2>3. CASE ProcessGep(n, W)
    <3> DEFINE new == {prog.field[n][o] : o \in SourcePts(n)}
    <3>1. prog.kind[n] = "gep" /\ new \in SUBSET Obj /\ GrowPtr(n, new, W)
      BY <1>1, <2>3, Helpers, ProgramParts DEF ProcessGep, Valid
    <3>2. pts'[n] = pts[n] \union new
      BY <1>1, <3>1, GrowPtrFacts
    <3> QED
      BY <1>2, <3>1, <3>2 DEF Satisfied
  <2> QED
    BY <2>1, <2>2, <2>3
<1>4. Kept(n)'
  BY <1>1, <1>2 DEF Kept
<1>5. \A g \in edges : ~(g.ind /\ g.src = n)
  BY <1>1, EdgesJoinNodes DEF Valid, TypeOK
<1> QED
  BY <1>3, <1>4, <1>5 DEF Passes

(* for loads, which clear only what they have read,                        *)
LEMMA LoadPasses ==
  ASSUME Valid, Known, Marks, UNCHANGED <<prog, graphVars>>, NEW n \in Node, NEW W \in SUBSET Node, Frame(n, W),
         ProcessLoad(n, W)
  PROVE  Passes(n)
<1> DEFINE new == UNION {dfIn[n][o] : o \in inUpdated[n] \intersect Readable(n)}
<1>1. prog.kind[n] = "load" /\ n \in Var /\ n \notin Mem /\ prog' = prog
  BY ProgramShape DEF Valid, Node, ProcessLoad
<1>2. new \in SUBSET Obj /\ GrowPtr(n, new, W)
  BY DEF ProcessLoad, Valid, TypeOK
<1>3. pts'[n] = pts[n] \union new
  BY <1>1, <1>2, GrowPtrFacts
<1>4. dfIn' = dfIn /\ inUpdated'[n] = inUpdated[n] \ Readable(n)
  BY DEF ProcessLoad, Unmarked, Valid, TypeOK
<1>5. Readable(n) \subseteq Obj
  BY <1>1, Helpers
<1>6. \A o \in Readable(n) : dfIn[n][o] \subseteq pts'[n]
  BY <1>1, <1>3, <1>5 DEF Marks, Kept
<1>7. n \notin worklist' => Readable(n)' = Readable(n)
  BY <1>1, SameInputs DEF Operands, Readable, AllFields
<1>8. n \notin worklist' => Satisfied(n)'
  BY <1>1, <1>4, <1>6, <1>7 DEF Satisfied
<1>9. Kept(n)'
  BY <1>1, <1>3, <1>4, <1>6 DEF Kept, Marks
<1>10. \A g \in edges : ~(g.ind /\ g.src = n)
  BY <1>1, EdgesJoinNodes DEF Valid, TypeOK
<1> QED
  BY <1>8, <1>9, <1>10 DEF Passes

(* for regions, whose marks stay,                                          *)
LEMMA RegionPasses ==
  ASSUME Valid, Known, Marks, edgesLeft = {}, UNCHANGED <<prog, graphVars>>,
         NEW n \in Node, NEW W \in SUBSET Node, Frame(n, W), ProcessRegion(n, W)
  PROVE  Passes(n)
<1>1. prog.kind[n] = "mr" /\ prog' = prog
  BY DEF ProcessRegion
<1>2. /\ inUpdated[n] \in SUBSET Obj /\ inUpdated \in [Node -> SUBSET Obj] /\ dfIn[n] \in Content
      /\ Propagate(n, inUpdated[n], dfIn[n], inUpdated, W)
  BY DEF ProcessRegion, Valid, TypeOK, Content
<1>3. Spread(n, inUpdated[n], dfIn[n], inUpdated, W)
  BY <1>2, PropagateFacts
<1>4. ASSUME NEW g \in edges, g.ind, g.src = n
      PROVE  /\ Carried(g)' = Carried(g)
             /\ \A o \in Carried(g) : dfIn[n][o] \subseteq dfIn'[g.dst][o]
             /\ Carried(g) \subseteq Obj
  <2>1. g.dst \in Node /\ Carried(g) \subseteq Obj
    BY EdgesJoinNodes, Helpers DEF Valid, TypeOK
  <2>2. \A o \in Carried(g) : dfIn[n][o] \subseteq dfIn[g.dst][o] \/ o \in inUpdated[n]
    BY <1>1, <1>4 DEF Marks, InTransit, ContentAt
  <2>3. \A o \in Carried(g) : dfIn[g.dst][o] \subseteq dfIn'[g.dst][o]
    BY <2>1 DEF Frame
  <2>4. \A o \in inUpdated[n] \intersect Carried(g) : dfIn[n][o] \subseteq dfIn'[g.dst][o]
    BY <1>3, <1>4 DEF Spread
  <2> QED
    BY <1>1, <2>1, <2>2, <2>3, <2>4 DEF Carried, AllFields
<1>5. \A o \in Obj : dfIn'[n][o] = dfIn[n][o] \/ (o \in inUpdated'[n] /\ n \in worklist')
  BY DEF Frame
<1>6. Satisfied(n)' /\ Kept(n)'
  BY <1>1 DEF Satisfied, Kept
<1>7. ASSUME NEW g \in edges, g.ind, g.src = n
      PROVE  InTransit(g)' /\ (n \notin worklist' => Delivered(g)')
  BY <1>1, <1>4, <1>5, <1>7 DEF InTransit, Delivered, ContentAt
<1> QED
  BY <1>6, <1>7 DEF Passes

(* for stores, which keep marked what they overwrite,                      *)
LEMMA StorePasses ==
  ASSUME Valid, Known, Marks, edgesLeft = {}, UNCHANGED <<prog, graphVars>>,
         NEW n \in Node, NEW W \in SUBSET Node, Frame(n, W), ProcessStore(n, W)
  PROVE  Passes(n)
<1> DEFINE O == {o \in Obj : Out(n)[o] # dfOut[n][o]}
           marked == [inUpdated EXCEPT ![n] = @ \ Handled(n)]
<1>1. prog.kind[n] = "store" /\ prog' = prog /\ Targets(n) \subseteq Obj
  BY Helpers DEF ProcessStore
<1>2. /\ Out(n) \in Content /\ pts' = pts /\ dfOut' = [dfOut EXCEPT ![n] = Out(n)] /\ O \in SUBSET Obj
      /\ marked \in [Node -> SUBSET Obj] /\ Propagate(n, O, Out(n), marked, W)
  BY StoreFacts
<1>3. Spread(n, O, Out(n), marked, W)
  BY <1>2, PropagateFacts
<1>4. dfOut'[n] = Out(n) /\ inUpdated[n] \ Handled(n) \subseteq inUpdated'[n]
  BY <1>2, <1>3 DEF Spread, Valid, TypeOK
<1>5. Targets(n)' = Targets(n) /\ Overwrites(n)' = Overwrites(n)
  BY <1>2, SameOverwrites
<1>6. \A o \in Obj : dfIn'[n][o] = dfIn[n][o] \/ (o \in inUpdated'[n] /\ n \in worklist')
  BY DEF Frame
<1>7. \A o \in Obj : /\ o \in Handled(n) => dfIn[n][o] \subseteq Out(n)[o]
                     /\ dfOut[n][o] \subseteq Out(n)[o]
  BY DEF Out, Passed, Handled
<1>8. \A o \in Obj \ Overwrites(n) : dfIn[n][o] \subseteq Out(n)[o]
  BY <1>1, <1>7 DEF Marks, Kept, Handled
<1>9. \A o \in Targets(n) \ prog.opaque : pts[prog.src[n]] \subseteq Out(n)[o]
  BY <1>1 DEF Out
<1>10. n \notin worklist' => Satisfied(n)'
  BY <1>1, <1>2, <1>4, <1>5, <1>6, <1>8, <1>9 DEF Satisfied
<1>11. Kept(n)'
  BY <1>1, <1>4, <1>6, <1>7 DEF Kept, Marks
<1>12. ASSUME NEW g \in edges, g.ind, g.src = n
       PROVE  Delivered(g)' /\ InTransit(g)'
  <2>1. g.dst \in Node /\ Carried(g) \subseteq Obj
    BY EdgesJoinNodes, Helpers DEF Valid, TypeOK
  <2>2. \A o \in Carried(g) : dfOut[n][o] \subseteq dfIn[g.dst][o]
    BY <1>1, <1>12 DEF Marks, InTransit, ContentAt
  <2>3. \A o \in Carried(g) : dfIn[g.dst][o] \subseteq dfIn'[g.dst][o]
    BY <2>1 DEF Frame
  <2>4. \A o \in O \intersect Carried(g) : Out(n)[o] \subseteq dfIn'[g.dst][o]
    BY <1>3, <1>12 DEF Spread
  <2>5. \A o \in Carried(g) : Out(n)[o] \subseteq dfIn'[g.dst][o]
    BY <2>1, <2>2, <2>3, <2>4
  <2>6. Carried(g)' = Carried(g)
    BY <1>1 DEF Carried, AllFields
  <2> QED
    BY <1>1, <1>4, <1>12, <2>5, <2>6 DEF Delivered, InTransit, ContentAt
<1> QED
  BY <1>10, <1>11, <1>12 DEF Passes

(* for stores whose pointer is null as yet,                                *)
LEMMA SkipPasses ==
  ASSUME Valid, Known, Marks, edgesLeft = {}, UNCHANGED <<prog, graphVars>>,
         NEW n \in Node, NEW W \in SUBSET Node, SkipStore(n, W)
  PROVE  Passes(n)
<1>1. /\ prog.kind[n] = "store" /\ Targets(n) = {} /\ prog' = prog
      /\ pts' = pts /\ dfIn' = dfIn /\ dfOut' = dfOut /\ inUpdated' = inUpdated
  BY DEF SkipStore, ptVars
<1>2. Satisfied(n)' /\ Kept(n)'
  BY <1>1 DEF Satisfied, Targets, Kept, Marks
<1>3. ASSUME NEW g \in edges, g.ind, g.src = n
      PROVE  Delivered(g)' /\ InTransit(g)'
  <2>1. Delivered(g)
    BY <1>1, <1>3 DEF Marks, InTransit, Delivered
  <2>2. Delivered(g)'
    BY <1>1, <2>1 DEF Delivered, Carried, AllFields, ContentAt
  <2> QED
    BY <2>2 DEF Delivered, InTransit
<1> QED
  BY <1>2, <1>3 DEF Passes

(* and so for every node.                                                  *)
LEMMA NodePasses ==
  ASSUME Valid, Known, Marks, edgesLeft = {}, UNCHANGED <<prog, graphVars>>,
         NEW n \in Node, NEW W \in SUBSET Node, Frame(n, W), ProcessSVFGNode(n, W)
  PROVE  Passes(n)
BY PointerPasses, LoadPasses, RegionPasses, StorePasses, SkipPasses DEF ProcessSVFGNode

(* Visiting a node, from the stack or from the work list.                  *)
LEMMA ProcessKeeps ==
  ASSUME Valid, IInv, ProcessNode \/ PostProcessNode
  PROVE  IInv'
<1>1. PICK n, W : ProcessStep(n, W)
  BY ProcessSteps
<1>2. n \in Node /\ W \in SUBSET Node /\ ProcessSVFGNode(n, W) /\ UNCHANGED <<prog, graphVars>>
  BY <1>1 DEF ProcessStep, Valid, TypeOK
<1>3. pc = "process" /\ pc' = pc /\ prog' = prog /\ edges' = edges /\ edgesLeft' = edgesLeft
  BY <1>1 DEF ProcessStep, graphVars
<1>4. Known /\ Marks /\ Settled /\ edgesLeft = {}
  BY <1>3 DEF IInv, Known
<1>5. Frame(n, W)
  BY <1>2, NodeFrame
<1>6. Passes(n)
  BY <1>2, <1>4, <1>5, NodePasses
<1>7. Known'
  BY <1>3, <1>4 DEF Known, CallEdges
<1>8. Marks'
  <2>1. \A m \in Node \ {n} : Kept(m) => Kept(m)'
    BY <1>2, <1>4, <1>5, OthersMarked
  <2>2. \A g \in edges : g.ind /\ g.src # n /\ InTransit(g) => InTransit(g)'
    BY <1>2, <1>4, <1>5, OthersMarked
  <2>3. \A m \in Node : Kept(m)'
    BY <1>4, <1>6, <2>1 DEF Marks, Passes
  <2>4. \A g \in edges : g.ind => InTransit(g)'
    BY <1>4, <1>6, <2>2 DEF Marks, Passes
  <2> QED
    BY <1>3, <1>4, <2>3, <2>4 DEF Marks
<1>9. Settled'
  <2>1. ASSUME NEW m \in SVFGNodes(prog), m \notin stack', m \notin worklist'
        PROVE  Done(m)'
    <3>1. m \in Node
      BY EdgesJoinNodes DEF Valid
    <3>2. CASE m = n
      BY <1>3, <1>6, <2>1, <3>2 DEF Passes, Done
    <3>3. CASE m # n
      <4>1. m \notin stack \union worklist
        BY <1>1, <1>5, <2>1, <3>3 DEF ProcessStep, Frame
      <4>2. Done(m)
        BY <1>3, <1>4, <4>1 DEF Settled
      <4> QED
        BY <1>2, <1>4, <1>5, <2>1, <3>1, <3>3, <4>2, OthersDone
    <3> QED
      BY <3>2, <3>3
  <2>2. SVFGNodes(prog)' = SVFGNodes(prog)
    BY <1>3 DEF SVFGNodes, CallEdges
  <2> QED
    BY <2>1, <2>2 DEF Settled
<1> QED
  BY <1>7, <1>8, <1>9 DEF IInv

(* Connecting an edge delivers all its source holds.                       *)
LEMMA ConnectKeeps ==
  ASSUME Valid, IInv, ConnectEdge
  PROVE  IInv'
<1>1. PICK h \in edgesLeft : Joined(h)
  BY ConnectFacts
<1>2. /\ pc = "connect" /\ pc' = pc /\ prog' = prog /\ edges' = edges /\ pts' = pts /\ dfOut' = dfOut
      /\ edgesLeft' = edgesLeft \ {h}
  BY <1>1 DEF ConnectEdge, graphVars, Joined
<1>3. Known'
  BY <1>2 DEF IInv, Known, CallEdges
<1>4. \A m \in Node, o \in Obj : dfIn'[m][o] = dfIn[m][o] \/ o \in inUpdated'[m]
  BY <1>1 DEF Joined
<1>5. \A m \in Node : inUpdated[m] \subseteq inUpdated'[m]
  BY <1>1 DEF Joined
<1>6. \A m \in Node : Kept(m)'
  BY <1>2, <1>4, <1>5 DEF IInv, Marks, Kept
<1>7. ASSUME NEW g \in edges, g.ind, g \notin edgesLeft'
      PROVE  InTransit(g)'
  <2>1. g.src \in Node /\ g.dst \in Node /\ Carried(g) \subseteq Obj /\ Carried(g)' = Carried(g)
    BY <1>2, EdgesJoinNodes, Helpers DEF Valid, TypeOK, Carried, AllFields
  <2>2. ASSUME NEW o \in Carried(g)
        PROVE  \/ ContentAt(g.src)[o] \subseteq dfIn'[g.dst][o]
               \/ prog.kind[g.src] # "store" /\ o \in inUpdated'[g.src]
    <3>1. CASE g = h
      BY <1>1, <1>7, <2>2, <3>1 DEF Joined
    <3>2. CASE g # h
      <4>1. InTransit(g)
        BY <1>2, <1>7, <3>2 DEF IInv, Marks
      <4>2. dfIn[g.dst][o] \subseteq dfIn'[g.dst][o]
        BY <1>1, <2>1 DEF Joined
      <4> QED
        BY <1>5, <2>1, <2>2, <4>1, <4>2 DEF InTransit
    <3> QED
      BY <3>1, <3>2
  <2>3. \A o \in Obj : \/ ContentAt(g.src)'[o] = ContentAt(g.src)[o]
                       \/ prog.kind[g.src] # "store" /\ o \in inUpdated'[g.src]
    BY <1>2, <1>4, <2>1 DEF ContentAt
  <2> QED
    BY <1>2, <2>1, <2>2, <2>3 DEF InTransit
<1>8. Marks'
  BY <1>2, <1>6, <1>7 DEF Marks
<1>9. Settled'
  BY <1>2 DEF Settled
<1> QED
  BY <1>3, <1>8, <1>9 DEF IInv

(* New edges are connected before nodes are visited again.                 *)
LEMMA CallsKeep ==
  ASSUME Valid, IInv, UpdateCallGraph
  PROVE  IInv'
<1>1. PICK new \in SUBSET prog.icalls :
        /\ called' = called \union {c.id : c \in new}
        /\ edges' = edges \union UNION {c.edges : c \in new}
        /\ edgesLeft' = (UNION {c.edges : c \in new}) \ edges
        /\ pc' = IF new = {} THEN "done" ELSE "connect"
  BY CallFacts
<1>2. /\ pc = "process" /\ edgesLeft = {} /\ stack' = stack /\ worklist' = worklist
      /\ UNCHANGED <<prog, pts, dfIn, dfOut, inUpdated, sccCalls>>
  BY DEF UpdateCallGraph, ptVars, IInv, Known
<1>3. UNION {c.edges : c \in new} \subseteq CallEdges(prog)
  BY <1>1 DEF CallEdges
<1>4. new = {} => edgesLeft' = {} /\ edges' = edges /\ called' = called
  BY <1>1
<1>5. edges' \ edgesLeft' = edges /\ edgesLeft' \subseteq edges' /\ (pc' # "connect" => edgesLeft' = {})
  BY <1>1, <1>4
<1>6. Known'
  BY <1>1, <1>2, <1>3, <1>5 DEF IInv, Known, CallEdges
<1>7. Marks'
  <2>1. \A m \in Node : Kept(m)'
    BY <1>2 DEF IInv, Marks, Kept
  <2>2. \A g \in edges : g.ind => InTransit(g)'
    BY <1>2 DEF IInv, Marks, InTransit, Carried, AllFields, ContentAt
  <2> QED
    BY <1>5, <2>1, <2>2 DEF Marks
<1>8. Settled'
  <2>1. CASE new = {}
    <3>1. UNCHANGED <<prog, edges, called, sccCalls, stack, worklist, pts, dfIn, dfOut, inUpdated>>
      BY <1>2, <1>4, <2>1
    <3>2. SVFGNodes(prog)' = SVFGNodes(prog) /\ \A m \in SVFGNodes(prog) \ (stack \union worklist) : Done(m)
      BY <1>2 DEF IInv, Settled, SVFGNodes, CallEdges
    <3>3. ASSUME NEW m, Done(m)
          PROVE  Done(m)'
      <4>1. Satisfied(m)' = Satisfied(m)
        BY <3>1 DEF Satisfied, SourcePts, Sources, Readable, AllFields, Targets, Overwrites
      <4>2. \A g \in edges : Delivered(g)' = Delivered(g)
        BY <3>1 DEF Delivered, Carried, AllFields, ContentAt
      <4> QED
        BY <3>1, <3>3, <4>1, <4>2 DEF Done
    <3> QED
      BY <3>1, <3>2, <3>3 DEF Settled
  <2>2. CASE new # {}
    BY <1>1, <2>2 DEF Settled
  <2> QED
    BY <2>1, <2>2
<1> QED
  BY <1>6, <1>7, <1>8 DEF IInv

(* Every step keeps the invariant.                                         *)
LEMMA NextKeeps ==
  ASSUME Valid, IInv, [Next]_vars
  PROVE  IInv'
<1>1. CASE Solve
  <2>1. /\ UNCHANGED <<prog, edges, pts, dfIn, dfOut, inUpdated, edgesLeft>>
        /\ stack' = SVFGNodes(prog) /\ pc = "solve" /\ pc' = "process"
    BY <1>1 DEF Solve, ptVars
  <2>2. Known'
    BY <2>1 DEF IInv, Known, CallEdges
  <2>3. Marks'
    BY <2>1 DEF IInv, Marks, Kept, InTransit, Carried, AllFields, ContentAt
  <2>4. SVFGNodes(prog)' = SVFGNodes(prog)
    BY <2>1 DEF SVFGNodes, CallEdges
  <2>5. Settled'
    BY <2>1, <2>4 DEF Settled
  <2> QED
    BY <2>2, <2>3, <2>5 DEF IInv
<1>2. CASE FinishConnect
  <2>1. /\ UNCHANGED <<prog, edges, pts, dfIn, dfOut, inUpdated, edgesLeft>>
        /\ edgesLeft = {} /\ pc' = "solve"
    BY <1>2 DEF FinishConnect, ptVars, graphVars
  <2>2. Known'
    BY <2>1 DEF IInv, Known, CallEdges
  <2>3. Marks'
    BY <2>1 DEF IInv, Marks, Kept, InTransit, Carried, AllFields, ContentAt
  <2>4. Settled'
    BY <2>1 DEF Settled
  <2> QED
    BY <2>2, <2>3, <2>4 DEF IInv
<1>3. CASE UNCHANGED vars
  <2>1. UNCHANGED <<prog, pc, edges, called, sccCalls, stack, worklist, pts, dfIn, dfOut, inUpdated, edgesLeft>>
    BY <1>3 DEF vars, ptVars, graphVars
  <2>2. Known' /\ Marks'
    BY <2>1 DEF IInv, Known, CallEdges, Marks, Kept, InTransit, Carried, AllFields, ContentAt
  <2>3. \A m : Satisfied(m)' = Satisfied(m)
    BY <2>1 DEF Satisfied, SourcePts, Sources, Readable, AllFields, Targets, Overwrites
  <2>4. \A g : Delivered(g)' = Delivered(g)
    BY <2>1 DEF Delivered, Carried, AllFields, ContentAt
  <2>5. SVFGNodes(prog)' = SVFGNodes(prog)
    BY <2>1 DEF SVFGNodes, CallEdges
  <2>6. Settled'
    BY <2>1, <2>3, <2>4, <2>5 DEF IInv, Settled, Done
  <2> QED
    BY <2>2, <2>6 DEF IInv
<1> QED
  BY <1>1, <1>2, <1>3, ProcessKeeps, ConnectKeeps, CallsKeep DEF Next, Step, Terminated

(* It holds at first.                                                      *)
LEMMA InitKeeps == Init => IInv
<1> SUFFICES ASSUME Init PROVE IInv
  OBVIOUS
<1>1. Known /\ Settled
  BY DEF Init, Known, Settled
<1>2. \A n \in Node, o \in Obj : dfIn[n][o] = {} /\ dfOut[n][o] = {}
  BY DEF Init, Nothing
<1>3. Valid
  BY InitType
<1>4. \A g \in edges : g.src \in Node /\ g.dst \in Node /\ Carried(g) \subseteq Obj
  BY <1>3, EdgesJoinNodes, Helpers DEF Valid, TypeOK
<1>5. Marks
  BY <1>2, <1>4 DEF Marks, Kept, InTransit, ContentAt
<1> QED
  BY <1>1, <1>5 DEF IInv

(* In every program, for every order in which nodes are visited: marks are *)
(* cleared, updates turn weak and edges appear late, but what has not been *)
(* passed on is due to a node that will be visited; when the analysis ends *)
(* its result solves the program.                                          *)
THEOREM NothingIsLost == Spec => []NothingLost
<1>1. Valid /\ IInv /\ [Next]_vars => Valid' /\ IInv'
  BY NextType, NextKeeps
<1>2. Valid /\ IInv => NothingLost
  <2> SUFFICES ASSUME Valid, IInv, pc \in {"process", "done"}
               PROVE  /\ \A n \in SVFGNodes(prog) \ (stack \union worklist) : Satisfied(n)
                      /\ \A g \in edges : g.ind => Delivered(g) \/ g.src \in stack \union worklist
    BY DEF NothingLost
  <2>1. \A g \in edges : g.src \in SVFGNodes(prog)
    BY DEF IInv, Known, SVFGNodes
  <2> QED
    BY <2>1 DEF IInv, Settled, Done
<1> QED
  BY <1>1, <1>2, InitType, InitKeeps, PTL DEF Spec
-----------------------------------------------------------------------------
(* The least solution.                                                     *)

(* Round's demands on a result, one by one.                                *)
Meets(p, s) ==
  /\ \A v \in Var : p.kind[v] = "addr" => p.obj[v] \in s.pts[v]
  /\ \A g \in EdgesOf(p, s.calls) : ~g.ind =>
       /\ p.kind[g.dst] = "copy" => s.pts[g.src] \subseteq s.pts[g.dst]
       /\ p.kind[g.dst] = "gep" => \A o \in s.pts[g.src] : p.field[g.dst][o] \in s.pts[g.dst]
  /\ \A v \in Var : p.kind[v] = "load" =>
       \A x \in s.pts[p.src[v]] \ p.opaque : \A o \in Whole(p, x) : s.inn[v][o] \subseteq s.pts[v]
  /\ \A g \in EdgesOf(p, s.calls) : g.ind =>
       \A x \in g.guard : \A o \in Whole(p, x) : ContentOf(p, s, g.src)[o] \subseteq s.inn[g.dst][o]
  /\ \A n \in Node : p.kind[n] = "store" /\ s.pts[p.dst[n]] # {} =>
       /\ \A o \in s.pts[p.dst[n]] \ p.opaque : s.pts[p.src[n]] \subseteq s.out[n][o]
       /\ \A o \in Obj : Sure(p, s, n, o) \/ s.inn[n][o] \subseteq s.out[n][o]
  /\ p.calls \subseteq s.calls
  /\ \A c \in p.icalls : c.target \in s.pts[c.fp] => c.id \in s.calls

(* The edges of a program with calls join nodes.                           *)
LEMMA CallsJoinNodes ==
  ASSUME prog \in Programs, NEW C
  PROVE  /\ EdgesOf(prog, C) \subseteq Edge
         /\ \A g \in EdgesOf(prog, C) : prog.kind[g.dst] \in {"copy", "gep"} => g.dst \in Var
         /\ \A x \in Obj : Whole(prog, x) \subseteq Obj
<1>1. EdgesOf(prog, C) \subseteq Edge
  BY ProgramParts DEF EdgesOf
<1>2. \A x \in Obj : Whole(prog, x) \subseteq Obj
  BY ProgramParts DEF Whole
<1> QED
  BY <1>1, <1>2, EdgesJoinNodes, ProgramShape DEF Node

(* A solution meets the demands,                                           *)
LEMMA SolutionMeets ==
  ASSUME prog \in Programs, NEW s, Solves(prog, s)
  PROVE  s \in Solution /\ Meets(prog, s)
<1> DEFINE t == Round(prog, s)
<1>1. s \in Solution /\ Within(t, s)
  BY DEF Solves
<1>2. /\ \A v \in Var : t.pts[v] \subseteq s.pts[v]
      /\ \A n \in Node, o \in Obj : t.inn[n][o] \subseteq s.inn[n][o] /\ t.out[n][o] \subseteq s.out[n][o]
      /\ t.calls \subseteq s.calls
  BY <1>1 DEF Within
<1>3. \A v \in Var : v \in Node
  BY DEF Node
<1>4. ASSUME NEW v \in Var, prog.kind[v] = "addr"
      PROVE  prog.obj[v] \in s.pts[v]
  <2>1. t.pts[v] = {prog.obj[v]}
    BY <1>4 DEF Round
  <2> QED
    BY <1>2, <2>1
<1>5. ASSUME NEW g \in EdgesOf(prog, s.calls), ~g.ind
      PROVE  /\ prog.kind[g.dst] = "copy" => s.pts[g.src] \subseteq s.pts[g.dst]
             /\ prog.kind[g.dst] = "gep" => \A o \in s.pts[g.src] : prog.field[g.dst][o] \in s.pts[g.dst]
  <2>1. prog.kind[g.dst] \in {"copy", "gep"} => g.dst \in Var
    BY CallsJoinNodes
  <2>2. s.pts[g.src] \subseteq From(prog, s, g.dst)
    BY <1>5 DEF From
  <2>3. prog.kind[g.dst] = "copy" => t.pts[g.dst] = From(prog, s, g.dst)
    BY <2>1 DEF Round
  <2>4. prog.kind[g.dst] = "gep" => t.pts[g.dst] = {prog.field[g.dst][o] : o \in From(prog, s, g.dst)}
    BY <2>1 DEF Round
  <2> QED
    BY <1>2, <2>1, <2>2, <2>3, <2>4
<1>6. ASSUME NEW v \in Var, prog.kind[v] = "load", NEW x \in s.pts[prog.src[v]] \ prog.opaque,
             NEW o \in Whole(prog, x)
      PROVE  s.inn[v][o] \subseteq s.pts[v]
  <2>1. t.pts[v] = UNION {s.inn[v][y] : y \in UNION {Whole(prog, z) : z \in s.pts[prog.src[v]] \ prog.opaque}}
    BY <1>6 DEF Round
  <2> QED
    BY <1>2, <1>6, <2>1
<1>7. ASSUME NEW g \in EdgesOf(prog, s.calls), g.ind, NEW x \in g.guard, NEW o \in Whole(prog, x)
      PROVE  ContentOf(prog, s, g.src)[o] \subseteq s.inn[g.dst][o]
  <2>1. g.dst \in Node /\ o \in Obj
    BY <1>7, CallsJoinNodes, EdgesJoinNodes
  <2>2. g \in Into(prog, s, g.dst, o)
    BY <1>7 DEF Into
  <2>3. t.inn[g.dst][o] = UNION {ContentOf(prog, s, h.src)[o] : h \in Into(prog, s, g.dst, o)}
    BY <2>1 DEF Round
  <2> QED
    BY <1>2, <2>1, <2>2, <2>3
<1>8. ASSUME NEW n \in Node, prog.kind[n] = "store", s.pts[prog.dst[n]] # {}
      PROVE  /\ \A o \in s.pts[prog.dst[n]] \ prog.opaque : s.pts[prog.src[n]] \subseteq s.out[n][o]
             /\ \A o \in Obj : Sure(prog, s, n, o) \/ s.inn[n][o] \subseteq s.out[n][o]
  <2>1. \A o \in Obj : t.out[n][o] =
          (IF o \in s.pts[prog.dst[n]] \ prog.opaque THEN s.pts[prog.src[n]] ELSE {})
            \union (IF Sure(prog, s, n, o) THEN {} ELSE s.inn[n][o])
    BY <1>8 DEF Round
  <2>2. s.pts[prog.dst[n]] \subseteq Obj
    BY <1>1, <1>8, ProgramShape DEF Solution
  <2> QED
    BY <1>2, <2>1, <2>2
<1>9. prog.calls \subseteq s.calls /\ \A c \in prog.icalls : c.target \in s.pts[c.fp] => c.id \in s.calls
  <2>1. t.calls = prog.calls \union {c.id : c \in {x \in prog.icalls : x.target \in s.pts[x.fp]}}
    BY DEF Round
  <2> QED
    BY <1>2, <2>1
<1> QED
  BY <1>1, <1>4, <1>5, <1>6, <1>7, <1>8, <1>9 DEF Meets

(* and what meets them is a solution.                                      *)
LEMMA MeetsSolves ==
  ASSUME prog \in Programs, NEW s \in Solution, Meets(prog, s)
  PROVE  Solves(prog, s)
<1> DEFINE t == Round(prog, s)
<1>1. ASSUME NEW v \in Var
      PROVE  t.pts[v] \subseteq s.pts[v]
  <2>1. v \in Node /\ prog.kind[v] \in {"addr", "copy", "gep", "load"}
    BY ProgramParts, ProgramShape, NamesAssumption DEF Node
  <2>2. CASE prog.kind[v] = "addr"
    <3>1. t.pts[v] = {prog.obj[v]}
      BY <2>2 DEF Round
    <3> QED
      BY <2>2, <3>1 DEF Meets
  <2>3. CASE prog.kind[v] = "copy"
    <3>1. t.pts[v] = From(prog, s, v)
      BY <2>3 DEF Round
    <3> QED
      BY <2>3, <3>1 DEF Meets, From
  <2>4. CASE prog.kind[v] = "gep"
    <3>1. t.pts[v] = {prog.field[v][o] : o \in From(prog, s, v)}
      BY <2>4 DEF Round
    <3> QED
      BY <2>4, <3>1 DEF Meets, From
  <2>5. CASE prog.kind[v] = "load"
    <3>1. t.pts[v] = UNION {s.inn[v][y] : y \in UNION {Whole(prog, z) : z \in s.pts[prog.src[v]] \ prog.opaque}}
      BY <2>5 DEF Round
    <3> QED
      BY <2>5, <3>1 DEF Meets
  <2> QED
    BY <2>1, <2>2, <2>3, <2>4, <2>5
<1>2. ASSUME NEW n \in Node, NEW o \in Obj
      PROVE  t.inn[n][o] \subseteq s.inn[n][o]
  <2>1. t.inn[n][o] = UNION {ContentOf(prog, s, h.src)[o] : h \in Into(prog, s, n, o)}
    BY DEF Round
  <2> QED
    BY <2>1 DEF Meets, Into
<1>3. ASSUME NEW n \in Node, NEW o \in Obj
      PROVE  t.out[n][o] \subseteq s.out[n][o]
  <2>1. t.out[n][o] =
          IF prog.kind[n] # "store" \/ s.pts[prog.dst[n]] = {} THEN {}
          ELSE (IF o \in s.pts[prog.dst[n]] \ prog.opaque THEN s.pts[prog.src[n]] ELSE {})
                 \union (IF Sure(prog, s, n, o) THEN {} ELSE s.inn[n][o])
    BY DEF Round
  <2> QED
    BY <2>1 DEF Meets
<1>4. t.calls \subseteq s.calls
  <2>1. t.calls = prog.calls \union {c.id : c \in {x \in prog.icalls : x.target \in s.pts[x.fp]}}
    BY DEF Round
  <2> QED
    BY <2>1 DEF Meets
<1> QED
  BY <1>1, <1>2, <1>3, <1>4 DEF Solves, Within

(* The more calls are known, the more functions are recursive.             *)
LEMMA RecursionGrows ==
  ASSUME NEW C, NEW D, NEW S, NEW T, NEW o, C \subseteq D, S \subseteq T,
         LocalInRecursion(View(prog, C, S, "flow"), o)
  PROVE  LocalInRecursion(View(prog, D, T, "flow"), o)
<1> DEFINE v == View(prog, C, S, "flow")
           w == View(prog, D, T, "flow")
<1>1. /\ v.prog = prog /\ v.called = C /\ v.scc = S
      /\ w.prog = prog /\ w.called = D /\ w.scc = T
  BY DEF View
<1>2. CallPairs(prog, S) \subseteq CallPairs(prog, T) /\ CallPairs(prog, C) \subseteq CallPairs(prog, D)
  BY DEF CallPairs
<1> HIDE DEF v, w
<1>3. ASSUME NEW f, NEW g, SameSCC(v, f, g)
      PROVE  SameSCC(w, f, g)
  BY <1>1, <1>2, <1>3 DEF SameSCC
<1>4. \A f : InCycle(v, f) => InCycle(w, f)
  BY <1>1, <1>2, <1>3 DEF InCycle
<1>5. LocalInRecursion(v, o)
  BY DEF v
<1>6. LocalInRecursion(w, o)
  BY <1>1, <1>4, <1>5 DEF LocalInRecursion
<1> QED
  BY <1>6 DEF w
(* What has been found so far is part of the solution s.                   *)
Under(s) ==
  /\ Within(Result, s)
  /\ sccCalls \subseteq s.calls
  /\ edges \subseteq EdgesOf(prog, s.calls)

(* What Under says of the sets the analysis keeps.                         *)
LEMMA UnderParts ==
  ASSUME NEW s
  PROVE  Under(s) <=> /\ \A v \in Var : pts[v] \subseteq s.pts[v]
                      /\ \A n \in Node, o \in Obj : dfIn[n][o] \subseteq s.inn[n][o] /\ dfOut[n][o] \subseteq s.out[n][o]
                      /\ called \subseteq s.calls /\ sccCalls \subseteq s.calls
                      /\ edges \subseteq EdgesOf(prog, s.calls)
BY DEF Under, Within, Result

(* An update that is strong in the solution is strong whenever the store   *)
(* has a target at all: its targets and the recursive functions only grow. *)
LEMMA StrongThroughout ==
  ASSUME Valid, NEW s, Solves(prog, s), Under(s), NEW n \in Node, prog.kind[n] = "store", Targets(n) # {},
         NEW o \in Obj, Sure(prog, s, n, o)
  PROVE  o \in Overwrites(n)
<1>1. prog.dst[n] \in Var
  BY ProgramShape DEF Valid
<1>2. Targets(n) = {o}
  BY <1>1, UnderParts DEF Targets, Sure
<1>3. ~LocalInRecursion(View(prog, called, sccCalls, "flow"), o)
  BY UnderParts, RecursionGrows DEF Sure
<1> QED
  BY <1>2, <1>3 DEF Sure, Overwrites

(* What comes to a pointer from its sources is part of the solution.       *)
LEMMA SourcesUnder ==
  ASSUME Valid, NEW s, Solves(prog, s), Under(s), NEW n \in Var
  PROVE  /\ prog.kind[n] = "copy" => SourcePts(n) \subseteq s.pts[n]
         /\ prog.kind[n] = "gep" => \A o \in SourcePts(n) : prog.field[n][o] \in s.pts[n]
<1>1. \A g \in edges : ~g.ind =>
        /\ prog.kind[g.dst] = "copy" => s.pts[g.src] \subseteq s.pts[g.dst]
        /\ prog.kind[g.dst] = "gep" => \A o \in s.pts[g.src] : prog.field[g.dst][o] \in s.pts[g.dst]
  BY SolutionMeets, UnderParts DEF Meets, Valid
<1>2. \A v \in Sources(n) \intersect Var :
        \E g \in edges : g.src = v /\ g.dst = n /\ ~g.ind /\ pts[v] \subseteq s.pts[v]
  BY UnderParts DEF Sources
<1>3. ASSUME prog.kind[n] = "copy", NEW v \in Sources(n) \intersect Var
      PROVE  pts[v] \subseteq s.pts[n]
  BY <1>1, <1>2, <1>3
<1>4. ASSUME prog.kind[n] = "gep", NEW v \in Sources(n) \intersect Var, NEW o \in pts[v]
      PROVE  prog.field[n][o] \in s.pts[n]
  BY <1>1, <1>2, <1>4
<1> QED
  BY <1>3, <1>4 DEF SourcePts

(* What is sent along the edges of the graph arrives in the solution too.  *)
LEMMA ArrivesUnder ==
  ASSUME Valid, NEW s, Solves(prog, s), Under(s), NEW g \in edges, g.ind, NEW o \in Carried(g)
  PROVE  ContentOf(prog, s, g.src)[o] \subseteq s.inn[g.dst][o]
<1>1. g \in EdgesOf(prog, s.calls)
  BY UnderParts
<1>2. PICK x \in g.guard : o \in Whole(prog, x)
  BY DEF Carried, AllFields, Whole
<1> QED
  BY <1>1, <1>2, SolutionMeets DEF Meets, Valid

(* Spreading the content of node n keeps within the solution.              *)
LEMMA SpreadUnder ==
  ASSUME Valid, NEW s, Solves(prog, s), Under(s), NEW n \in Node, NEW O \in SUBSET Obj, NEW C \in Content,
         NEW marked, NEW W, Propagate(n, O, C, marked, W),
         \A o \in O : C[o] \subseteq ContentOf(prog, s, n)[o]
  PROVE  \A m \in Node, o \in Obj : dfIn'[m][o] \subseteq s.inn[m][o]
<1> DEFINE new == [m \in Node |-> Arrivals(n, O, C, m)]
<1>1. dfIn' = [m \in Node |-> [o \in Obj |-> IF o \in new[m] THEN dfIn[m][o] \union C[o] ELSE dfIn[m][o]]]
  BY DEF Propagate
<1>2. ASSUME NEW m \in Node, NEW o \in Obj
      PROVE  dfIn'[m][o] \subseteq s.inn[m][o]
  <2>1. dfIn[m][o] \subseteq s.inn[m][o]
    BY UnderParts
  <2>2. ASSUME o \in Arrivals(n, O, C, m)
        PROVE  C[o] \subseteq s.inn[m][o]
    <3>1. PICK g \in edges : g.ind /\ g.src = n /\ g.dst = m /\ o \in Carried(g)
      BY <2>2 DEF Arrivals
    <3>2. o \in O
      BY <2>2 DEF Arrivals
    <3> QED
      BY <3>1, <3>2, ArrivesUnder
  <2> QED
    BY <1>1, <2>1, <2>2
<1> QED
  BY <1>2

(* No statement takes the result out of the solution.                      *)
LEMMA NodeUnder ==
  ASSUME Valid, NEW s, Solves(prog, s), Under(s), UNCHANGED <<prog, graphVars>>,
         NEW n \in Node, NEW W \in SUBSET Node, ProcessSVFGNode(n, W)
  PROVE  Under(s)'
<1>1. Meets(prog, s) /\ s \in Solution
  BY SolutionMeets DEF Valid
<1>2. /\ UNCHANGED <<edges, called, sccCalls>> /\ called \subseteq s.calls /\ sccCalls \subseteq s.calls
      /\ edges \subseteq EdgesOf(prog, s.calls)
      /\ \A v \in Var : pts[v] \subseteq s.pts[v]
      /\ \A m \in Node, o \in Obj : dfIn[m][o] \subseteq s.inn[m][o] /\ dfOut[m][o] \subseteq s.out[m][o]
  BY UnderParts DEF graphVars
<1>3. SUFFICES /\ \A v \in Var : pts'[v] \subseteq s.pts[v]
               /\ \A m \in Node, o \in Obj : dfIn'[m][o] \subseteq s.inn[m][o] /\ dfOut'[m][o] \subseteq s.out[m][o]
  <2>1. Under(s)' <=> /\ \A v \in Var : pts'[v] \subseteq s.pts[v]
                      /\ \A m \in Node, o \in Obj : dfIn'[m][o] \subseteq s.inn[m][o] /\ dfOut'[m][o] \subseteq s.out[m][o]
                      /\ called' \subseteq s.calls /\ sccCalls' \subseteq s.calls
                      /\ edges' \subseteq EdgesOf(prog', s.calls)
    BY DEF Under, Within, Result
  <2> QED
    BY <1>2, <2>1
<1>4. ASSUME n \in Var, NEW new \in SUBSET Obj, GrowPtr(n, new, W), UNCHANGED <<dfIn, dfOut>>, new \subseteq s.pts[n]
      PROVE  /\ \A v \in Var : pts'[v] \subseteq s.pts[v]
             /\ \A m \in Node, o \in Obj : dfIn'[m][o] \subseteq s.inn[m][o] /\ dfOut'[m][o] \subseteq s.out[m][o]
  <2>1. /\ pts'[n] = pts[n] \union new
        /\ \A v \in Var : v # n => pts'[v] = pts[v]
    BY <1>4, GrowPtrFacts
  <2> QED
    BY <1>2, <1>4, <2>1
<1>5. CASE ProcessAddr(n, W)
  <2>1. n \in Var /\ prog.obj[n] \in Obj /\ prog.obj[n] \in s.pts[n]
    BY <1>1, <1>5, ProgramShape DEF Valid, ProcessAddr, Node, Meets
  <2> QED
    BY <1>4, <1>5, <2>1 DEF ProcessAddr
<1>6. CASE ProcessCopy(n, W)
  <2>1. n \in Var
    BY <1>6, ProgramShape DEF Valid, ProcessCopy, Node
  <2>2. SourcePts(n) \in SUBSET Obj /\ SourcePts(n) \subseteq s.pts[n]
    BY <1>6, <2>1, SourcesUnder, Helpers DEF ProcessCopy
  <2> QED
    BY <1>4, <1>6, <2>1, <2>2 DEF ProcessCopy
<1>7. CASE ProcessGep(n, W)
  <2>1. n \in Var
    BY <1>7, ProgramShape DEF Valid, ProcessGep, Node
  <2>2. {prog.field[n][o] : o \in SourcePts(n)} \in SUBSET Obj
    BY <2>1, Helpers, ProgramParts DEF Valid
  <2>3. {prog.field[n][o] : o \in SourcePts(n)} \subseteq s.pts[n]
    BY <1>7, <2>1, SourcesUnder DEF ProcessGep
  <2> QED
    BY <1>4, <1>7, <2>1, <2>2, <2>3 DEF ProcessGep
<1>8. CASE ProcessLoad(n, W)
  <2>1. n \in Var /\ prog.kind[n] = "load" /\ prog.src[n] \in Var /\ n \in Node
    BY <1>8, ProgramShape DEF Valid, ProcessLoad, Node
  <2>2. UNION {dfIn[n][o] : o \in inUpdated[n] \intersect Readable(n)} \in SUBSET Obj
    BY DEF Valid, TypeOK
  <2>3. ASSUME NEW o \in inUpdated[n] \intersect Readable(n)
        PROVE  dfIn[n][o] \subseteq s.pts[n]
    <3>1. PICK x \in pts[prog.src[n]] \ prog.opaque : o \in Whole(prog, x)
      BY DEF Readable, AllFields, Whole
    <3>2. x \in s.pts[prog.src[n]]
      BY <1>2, <2>1, <3>1
    <3>3. s.inn[n][o] \subseteq s.pts[n]
      BY <1>1, <2>1, <3>1, <3>2 DEF Meets
    <3>4. o \in Obj
      BY DEF Valid, TypeOK
    <3> QED
      BY <1>2, <2>1, <3>3, <3>4
  <2>4. UNION {dfIn[n][o] : o \in inUpdated[n] \intersect Readable(n)} \subseteq s.pts[n]
    BY <2>3
  <2> QED
    BY <1>4, <1>8, <2>1, <2>2, <2>4 DEF ProcessLoad
<1>9. CASE ProcessRegion(n, W)
  <2>1. /\ inUpdated[n] \in SUBSET Obj /\ dfIn[n] \in Content
        /\ \A o \in inUpdated[n] : dfIn[n][o] \subseteq ContentOf(prog, s, n)[o]
    BY <1>2, <1>9 DEF Valid, TypeOK, Content, ContentOf, ProcessRegion
  <2>2. pts' = pts /\ dfOut' = dfOut /\ Propagate(n, inUpdated[n], dfIn[n], inUpdated, W)
    BY <1>9 DEF ProcessRegion
  <2>3. \A m \in Node, o \in Obj : dfIn'[m][o] \subseteq s.inn[m][o]
    BY <2>1, <2>2, SpreadUnder
  <2> QED
    BY <1>2, <2>2, <2>3
<1>10. CASE ProcessStore(n, W)
  <2> DEFINE O == {o \in Obj : Out(n)[o] # dfOut[n][o]}
             marked == [inUpdated EXCEPT ![n] = @ \ Handled(n)]
  <2>1. prog.kind[n] = "store" /\ prog.src[n] \in Var /\ prog.dst[n] \in Var /\ Targets(n) # {}
    BY <1>10, ProgramShape DEF Valid, ProcessStore
  <2>2. /\ Out(n) \in Content /\ pts' = pts /\ dfOut' = [dfOut EXCEPT ![n] = Out(n)] /\ O \in SUBSET Obj
        /\ Propagate(n, O, Out(n), marked, W)
    BY <1>10, StoreFacts
  <2>3. ASSUME NEW o \in Obj
        PROVE  Out(n)[o] \subseteq s.out[n][o]
    <3>1. s.pts[prog.dst[n]] # {} /\ Targets(n) \subseteq s.pts[prog.dst[n]]
      BY <1>2, <2>1 DEF Targets
    <3>2. o \in Targets(n) \ prog.opaque => pts[prog.src[n]] \subseteq s.out[n][o]
      <4>1. o \in Targets(n) \ prog.opaque => s.pts[prog.src[n]] \subseteq s.out[n][o]
        BY <1>1, <2>1, <3>1 DEF Meets
      <4> QED
        BY <1>2, <2>1, <4>1
    <3>3. o \in Passed(n) => dfIn[n][o] \subseteq s.out[n][o]
      <4>1. o \in Passed(n) => ~Sure(prog, s, n, o)
        BY <2>1, StrongThroughout DEF Passed
      <4>2. ~Sure(prog, s, n, o) => s.inn[n][o] \subseteq s.out[n][o]
        BY <1>1, <2>1, <3>1 DEF Meets
      <4> QED
        BY <1>2, <4>1, <4>2
    <3>4. dfOut[n][o] \subseteq s.out[n][o]
      BY <1>2
    <3> QED
      BY <3>2, <3>3, <3>4 DEF Out
  <2>4. \A o \in O : Out(n)[o] \subseteq ContentOf(prog, s, n)[o]
    BY <2>1, <2>3 DEF ContentOf
  <2> HIDE DEF O, marked
  <2>5. \A m \in Node, o \in Obj : dfIn'[m][o] \subseteq s.inn[m][o]
    BY <2>2, <2>4, SpreadUnder
  <2>6. \A m \in Node, o \in Obj : dfOut'[m][o] \subseteq s.out[m][o]
    BY <1>2, <2>2, <2>3 DEF Valid, TypeOK
  <2> QED
    BY <1>2, <2>2, <2>5, <2>6
<1>11. CASE SkipStore(n, W)
  BY <1>2, <1>11 DEF SkipStore, ptVars
<1> QED
  BY <1>5, <1>6, <1>7, <1>8, <1>9, <1>10, <1>11 DEF ProcessSVFGNode

(* Neither does any other step.                                            *)
LEMMA NextUnder ==
  ASSUME Valid, Known, NEW s, Solves(prog, s), Under(s), [Next]_vars
  PROVE  Under(s)'
<1>1. Meets(prog, s)
  BY SolutionMeets DEF Valid
<1>2. /\ called \subseteq s.calls /\ sccCalls \subseteq s.calls /\ edges \subseteq EdgesOf(prog, s.calls)
      /\ \A v \in Var : pts[v] \subseteq s.pts[v]
      /\ \A m \in Node, o \in Obj : dfIn[m][o] \subseteq s.inn[m][o] /\ dfOut[m][o] \subseteq s.out[m][o]
  BY UnderParts
<1>3. CASE Solve
  BY <1>2, <1>3 DEF Solve, ptVars, Under, Within, Result
<1>4. CASE ProcessNode \/ PostProcessNode
  <2>1. PICK n, W : ProcessStep(n, W)
    BY <1>4, ProcessSteps
  <2>2. n \in Node /\ W \in SUBSET Node /\ UNCHANGED <<prog, graphVars>> /\ ProcessSVFGNode(n, W)
    BY <2>1 DEF ProcessStep, Valid, TypeOK
  <2> QED
    BY <2>2, NodeUnder
<1>5. CASE UpdateCallGraph
  <2>1. PICK new \in SUBSET prog.icalls :
          /\ \A c \in new : c.target \in pts[c.fp]
          /\ called' = called \union {c.id : c \in new}
          /\ edges' = edges \union UNION {c.edges : c \in new}
    BY <1>5, CallFacts
  <2>2. \A c \in new : c \in prog.icalls /\ c.id \in s.calls
    BY <1>1, <1>2, <2>1, ProgramParts DEF Meets, Valid
  <2>3. called' \subseteq s.calls /\ edges' \subseteq EdgesOf(prog, s.calls)
    BY <1>2, <2>1, <2>2 DEF EdgesOf
  <2> QED
    BY <1>2, <1>5, <2>3 DEF UpdateCallGraph, ptVars, Under, Within, Result
<1>6. CASE ConnectEdge
  <2>1. PICK g \in edgesLeft :
          /\ \/ ~g.ind /\ dfIn' = dfIn
             \/ /\ g.ind
                /\ dfIn' = [dfIn EXCEPT ![g.dst] =
                     [o \in Obj |-> IF o \in PropAfterCGUpdated(g) THEN @[o] \union ContentAt(g.src)[o] ELSE @[o]]]
    BY <1>6 DEF ConnectEdge
  <2>2. UNCHANGED <<prog, edges, called, sccCalls, pts, dfOut>>
    BY <1>6 DEF ConnectEdge, graphVars
  <2>3. ASSUME NEW m \in Node, NEW o \in Obj
        PROVE  dfIn'[m][o] \subseteq s.inn[m][o]
    <3>1. \/ dfIn'[m][o] = dfIn[m][o]
          \/ /\ g.ind /\ m = g.dst /\ o \in PropAfterCGUpdated(g)
             /\ dfIn'[m][o] = dfIn[m][o] \union ContentAt(g.src)[o]
      BY <2>1 DEF Valid, TypeOK
    <3>2. ASSUME g.ind, o \in Carried(g)
          PROVE  ContentAt(g.src)[o] \subseteq s.inn[g.dst][o]
      <4>1. g \in edges /\ g.src \in Node
        BY EdgesJoinNodes DEF Known, Valid, TypeOK
      <4>2. ContentAt(g.src)[o] \subseteq ContentOf(prog, s, g.src)[o]
        BY <1>2, <4>1 DEF ContentAt, ContentOf
      <4> QED
        BY <3>2, <4>1, <4>2, ArrivesUnder
    <3> QED
      BY <1>2, <3>1, <3>2 DEF PropAfterCGUpdated, Fresh
  <2> QED
    BY <1>2, <2>2, <2>3 DEF Under, Within, Result
<1>7. CASE FinishConnect
  BY <1>2, <1>7 DEF FinishConnect, ptVars, graphVars, Under, Within, Result
<1>8. CASE UNCHANGED vars
  BY <1>2, <1>8 DEF vars, ptVars, graphVars, Under, Within, Result
<1> QED
  BY <1>3, <1>4, <1>5, <1>6, <1>7, <1>8 DEF Next, Step, Terminated
(* The graphs follow the calls that have been found, and between two       *)
(* rounds the cycle detection has seen them all.                           *)
Current ==
  /\ edges = EdgesOf(prog, called)
  /\ prog.calls \subseteq called
  /\ pc \in {"process", "done"} => sccCalls = called
  /\ pc = "done" => /\ stack = {} /\ worklist = {}
                    /\ \A c \in prog.icalls : c.target \in pts[c.fp] => c.id \in called

(* It is so at first, and stays so.                                        *)
LEMMA InitCurrent == Init => Current
<1> SUFFICES ASSUME Init PROVE Current
  OBVIOUS
<1>1. \A c \in prog.icalls : c.id \notin prog.calls
  BY ProgramAssumption DEF Init
<1> QED
  BY <1>1 DEF Init, Current, EdgesOf

LEMMA NextCurrent ==
  ASSUME Valid, Current, [Next]_vars
  PROVE  Current'
<1>1. CASE Solve
  BY <1>1 DEF Solve, ptVars, Current, EdgesOf
<1>2. CASE ProcessNode \/ PostProcessNode
  <2>1. PICK n, W : ProcessStep(n, W)
    BY <1>2, ProcessSteps
  <2>2. pc = "process" /\ pc' = pc /\ UNCHANGED <<prog, edges, called, sccCalls>>
    BY <2>1 DEF ProcessStep, graphVars
  <2> QED
    BY <2>2 DEF Current
<1>3. CASE UpdateCallGraph
  <2> DEFINE new == {c \in prog.icalls : c.target \in pts[c.fp] /\ c.id \notin called}
  <2>1. /\ called' = called \union {c.id : c \in new}
        /\ edges' = edges \union UNION {c.edges : c \in new}
        /\ pc' = IF new = {} THEN "done" ELSE "connect"
        /\ pc = "process" /\ stack = {} /\ worklist = {}
        /\ UNCHANGED <<prog, sccCalls, stack, worklist, pts>>
    BY <1>3 DEF UpdateCallGraph, ptVars
  <2>2. \A c \in prog.icalls : c.id \in called' => c.id \in called \/ c \in new
    <3>1. \A c, d \in prog.icalls : c.id = d.id => c = d
      BY ProgramAssumption DEF Valid
    <3> QED
      BY <2>1, <3>1
  <2>3. edges' = EdgesOf(prog, called')
    BY <2>1, <2>2 DEF Current, EdgesOf
  <2>4. new = {} => called' = called /\ \A c \in prog.icalls : c.target \in pts[c.fp] => c.id \in called
    BY <2>1
  <2> HIDE DEF new
  <2> QED
    BY <2>1, <2>3, <2>4 DEF Current
<1>4. CASE ConnectEdge \/ FinishConnect
  BY <1>4 DEF ConnectEdge, FinishConnect, graphVars, ptVars, Current
<1>5. CASE UNCHANGED vars
  BY <1>5 DEF vars, graphVars, ptVars, Current
<1> QED
  BY <1>1, <1>2, <1>3, <1>4, <1>5 DEF Next, Step, Terminated

(* When the analysis ends, its result is a solution.                       *)
LEMMA ResultSolves ==
  ASSUME Valid, IInv, Current, pc = "done"
  PROVE  Solves(prog, Result)
<1> DEFINE s == Result
<1>1. /\ s.pts = pts /\ s.inn = dfIn /\ s.out = dfOut /\ s.calls = called
      /\ s \in Solution
  BY DEF Result, Solution, Valid, TypeOK
<1>2. /\ edges = EdgesOf(prog, s.calls) /\ sccCalls = called
      /\ \A n \in SVFGNodes(prog) : Done(n)
  BY <1>1 DEF Current, IInv, Settled
<1>3. \A g \in edges : g \in Edge /\ g.src \in SVFGNodes(prog) /\ g.dst \in SVFGNodes(prog)
  BY DEF Valid, TypeOK, IInv, Known, SVFGNodes
<1>4. \A n \in Node : ContentOf(prog, s, n) = ContentAt(n)
  BY <1>1 DEF ContentOf, ContentAt
<1> HIDE DEF s
<1>5. ASSUME NEW v \in Var, prog.kind[v] = "addr"
      PROVE  prog.obj[v] \in s.pts[v]
  <2>1. v \in SVFGNodes(prog)
    BY <1>5 DEF SVFGNodes, Node
  <2> QED
    BY <1>1, <1>2, <1>5, <2>1 DEF Done, Satisfied
<1>6. ASSUME NEW g \in edges, ~g.ind
      PROVE  /\ prog.kind[g.dst] = "copy" => s.pts[g.src] \subseteq s.pts[g.dst]
             /\ prog.kind[g.dst] = "gep" => \A o \in s.pts[g.src] : prog.field[g.dst][o] \in s.pts[g.dst]
  <2>1. Satisfied(g.dst) /\ g.src \in Var
    BY <1>2, <1>3, <1>6, EdgesJoinNodes DEF Done, Valid
  <2>2. pts[g.src] \subseteq SourcePts(g.dst)
    BY <1>6, <2>1 DEF Sources, SourcePts
  <2> QED
    BY <1>1, <2>1, <2>2 DEF Satisfied
<1>7. ASSUME NEW v \in Var, prog.kind[v] = "load", NEW x \in s.pts[prog.src[v]] \ prog.opaque,
             NEW o \in Whole(prog, x)
      PROVE  s.inn[v][o] \subseteq s.pts[v]
  <2>1. v \in SVFGNodes(prog)
    BY <1>7 DEF SVFGNodes, Node
  <2>2. o \in Readable(v)
    BY <1>1, <1>7 DEF Readable, AllFields, Whole
  <2> QED
    BY <1>1, <1>2, <1>7, <2>1, <2>2 DEF Done, Satisfied
<1>8. ASSUME NEW g \in edges, g.ind, NEW x \in g.guard, NEW o \in Whole(prog, x)
      PROVE  ContentOf(prog, s, g.src)[o] \subseteq s.inn[g.dst][o]
  <2>1. o \in Carried(g)
    BY <1>8 DEF Carried, AllFields, Whole
  <2>2. Delivered(g) /\ g.src \in Node
    BY <1>2, <1>3, <1>8, EdgesJoinNodes DEF Done, Valid
  <2> QED
    BY <1>1, <1>4, <2>1, <2>2 DEF Delivered
<1>9. ASSUME NEW n \in Node, prog.kind[n] = "store", s.pts[prog.dst[n]] # {}
      PROVE  /\ \A o \in s.pts[prog.dst[n]] \ prog.opaque : s.pts[prog.src[n]] \subseteq s.out[n][o]
             /\ \A o \in Obj : Sure(prog, s, n, o) \/ s.inn[n][o] \subseteq s.out[n][o]
  <2>1. n \in SVFGNodes(prog)
    BY <1>9 DEF SVFGNodes
  <2>2. Targets(n) = s.pts[prog.dst[n]] /\ \A o \in Overwrites(n) : Sure(prog, s, n, o)
    BY <1>1, <1>2 DEF Targets, Overwrites, Sure
  <2> QED
    BY <1>1, <1>2, <1>9, <2>1, <2>2 DEF Done, Satisfied
<1>10. prog.calls \subseteq s.calls /\ \A c \in prog.icalls : c.target \in s.pts[c.fp] => c.id \in s.calls
  BY <1>1 DEF Current
<1>11. Meets(prog, s)
  BY <1>2, <1>5, <1>6, <1>7, <1>8, <1>9, <1>10 DEF Meets
<1> QED
  BY <1>1, <1>11, MeetsSolves DEF s, Valid

(* In every program, for every order in which nodes are visited, edges     *)
(* connected and marks cleared: at no time has the analysis found anything *)
(* that some solution of the program lacks, however the strong updates and *)
(* the recursive functions have changed on the way; and what it ends with  *)
(* is a solution.  So it ends with the least one.                          *)
THEOREM ResultIsLeast == Spec => []LeastSolution
<1> DEFINE Inv == /\ Valid /\ IInv /\ Current
                  /\ \A s \in Candidates[prog] : Solves(prog, s) => Under(s)
<1>1. Init => Inv
  <2> SUFFICES ASSUME Init PROVE Inv
    OBVIOUS
  <2>1. Valid /\ IInv /\ Current
    BY InitType, InitKeeps, InitCurrent
  <2>2. ASSUME NEW s, Solves(prog, s)
        PROVE  Under(s)
    <3>1. Meets(prog, s)
      BY <2>1, <2>2, SolutionMeets DEF Valid
    <3> QED
      BY <3>1, UnderParts DEF Init, Nothing, Meets, EdgesOf
  <2> QED
    BY <2>1, <2>2
<1>2. Inv /\ [Next]_vars => Inv'
  <2> SUFFICES ASSUME Inv, [Next]_vars PROVE Inv'
    OBVIOUS
  <2>1. Valid' /\ IInv' /\ Current'
    BY NextType, NextKeeps, NextCurrent
  <2>2. prog' = prog
    BY DEF Next, Step, Solve, ProcessNode, PostProcessNode, UpdateCallGraph, ConnectEdge, FinishConnect,
           Terminated, vars
  <2>3. \A s \in Candidates[prog] : Solves(prog, s) => Under(s)'
    BY NextUnder DEF IInv
  <2> QED
    BY <2>1, <2>2, <2>3
<1>3. Inv => LeastSolution
  <2> SUFFICES ASSUME Inv PROVE LeastSolution
    OBVIOUS
  <2>1. pc = "done" => Solves(prog, Result)
    BY ResultSolves
  <2> QED
    BY <2>1 DEF LeastSolution, Under
<1> QED
  BY <1>1, <1>2, <1>3, PTL DEF Spec
=============================================================================
