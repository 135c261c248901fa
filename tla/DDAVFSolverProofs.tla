------------------------- MODULE DDAVFSolverProofs -------------------------
(***************************************************************************)
(* For every program, context limit and budget: the demand-driven analysis *)
(* keeps its types, stays within the pre-analysis, never trips over its    *)
(* assertions, and gives no answer coarser than the flow-sensitive         *)
(* equations do; and what its flow-sensitive engine has found between two  *)
(* queries solves those equations.                                         *)
(***************************************************************************)
EXTENDS DDAMeaning, SequenceTheorems, FiniteSetTheorems, TLAPS

Valid == TypeOK /\ prog \in Programs

(* The parts of a program.                                                 *)
LEMMA ProgramParts ==
  ASSUME prog \in Programs
  PROVE  /\ prog.kind \in [Node -> {"addr", "copy", "gep", "load", "store", "mr"}]
         /\ prog.obj \in [Var -> Obj \union {None}] /\ prog.field \in [Var -> [Obj -> Obj]]
         /\ prog.src \in [Node -> Var \union {None}] /\ prog.dst \in [Node -> Var \union {None}]
         /\ prog.edges \subseteq Edge
         /\ prog.icalls \subseteq [fp : Var, target : Obj, id : CallId, edges : SUBSET Edge]
         /\ prog.resolves \in [Node -> SUBSET Var] /\ prog.calls \subseteq CallId
         /\ prog.ander \in [Var \union Obj -> SUBSET Obj]
         /\ prog.queries \subseteq Var /\ prog.engine \in Engine /\ prog.budget \in [Engine -> Nat]
<1>1. prog \in Program
  BY ProgramAssumption
<1> QED
  BY <1>1 DEF Program

(* What the assumption on programs says of the one at hand.                *)
LEMMA ProgramShape ==
  ASSUME prog \in Programs
  PROVE  /\ \A n \in Node : n \in Mem <=> prog.kind[n] \in {"store", "mr"}
         /\ \A n \in Node : prog.kind[n] \in {"load", "store"} => prog.src[n] \in Var
         /\ \A n \in Node : prog.kind[n] = "store" => prog.dst[n] \in Var
         /\ \A v \in Var : prog.kind[v] = "addr" => prog.obj[v] \in Obj
         /\ PreAnalysed(prog)
<1>1. /\ \A n \in Node : n \in Mem <=> prog.kind[n] \in {"store", "mr"}
      /\ \A n \in Node : Operands(prog, n) \subseteq Var
      /\ \A v \in Var : prog.kind[v] = "addr" => prog.obj[v] \in Obj
      /\ PreAnalysed(prog)
  BY ProgramAssumption
<1> QED
  BY <1>1 DEF Operands

-----------------------------------------------------------------------------
(* Type correctness, operator by operator.                                 *)

(* A call string that loses its recursive end stays a call string.         *)
LEMMA PrefixType ==
  ASSUME NEW s \in Cxt, NEW k \in 0..Len(s)
  PROVE  SubSeq(s, 1, k) \in Cxt
<1>1. s \in Seq(CallId) /\ Len(s) <= MaxCxt /\ Len(s) \in Nat /\ MaxCxt \in Nat
  BY NamesAssumption DEF Cxt
<1>2. SubSeq(s, 1, k) \in Seq(CallId) /\ Len(SubSeq(s, 1, k)) = k
  BY <1>1, SubSeqProperties
<1> QED
  BY <1>1, <1>2 DEF Cxt

(* Following an edge keeps the call string within its limit.               *)
LEMMA ContextType ==
  ASSUME NEW w, NEW s \in Cxt, NEW g \in Edge
  PROVE  Context(w, s, g) \in Cxt
<1>1. s \in Seq(CallId) /\ Len(s) <= MaxCxt /\ Len(s) \in Nat /\ MaxCxt \in Nat
  BY NamesAssumption DEF Cxt
<1>2. PopRecursive(w, s) \in Cxt
  <2> DEFINE keep == {k \in 1..Len(s) : \E j \in k..Len(s) : ~EdgeInRecursion(w, s[j])}
  <2>1. keep \subseteq 1..Len(s)
    OBVIOUS
  <2> HIDE DEF keep
  <2>2. IsFiniteSet(1..Len(s)) /\ Cardinality(1..Len(s)) = Len(s)
    <3>1. 1 \in Int /\ Len(s) \in Int
      BY <1>1
    <3>2. IsFiniteSet(1..Len(s)) /\ Cardinality(1..Len(s)) = IF 1 > Len(s) THEN 0 ELSE Len(s) - 1 + 1
      BY <3>1, FS_Interval
    <3> QED
      BY <1>1, <3>2
  <2>3. Cardinality(keep) \in 0..Len(s)
    <3>1. IsFiniteSet(keep) /\ Cardinality(keep) <= Len(s)
      BY <2>1, <2>2, FS_Subset
    <3>2. Cardinality(keep) \in Nat
      BY <3>1, FS_CardinalityType
    <3> QED
      BY <1>1, <3>1, <3>2
  <2>4. SubSeq(s, 1, Cardinality(keep)) \in Cxt
    BY <2>3, PrefixType
  <2> QED
    BY <2>4 DEF PopRecursive, keep
<1>3. ASSUME g.dir # "intra" PROVE PushContext(s, g.id) \in Cxt
  <2> g.id \in CallId
    BY <1>3 DEF Edge
  <2>1. CASE Len(s) < MaxCxt
    <3>1. Append(s, g.id) \in Seq(CallId) /\ Len(Append(s, g.id)) = Len(s) + 1
      BY <1>1, <1>3, AppendProperties
    <3> QED
      BY <1>1, <2>1, <3>1 DEF PushContext, Cxt
  <2>2. CASE ~(Len(s) < MaxCxt) /\ s # <<>>
    <3>1. Tail(s) \in Seq(CallId) /\ Len(Tail(s)) = Len(s) - 1
      BY <1>1, <2>2, HeadTailProperties
    <3>2. Append(Tail(s), g.id) \in Seq(CallId) /\ Len(Append(Tail(s), g.id)) = Len(s)
      BY <1>1, <1>3, <3>1, AppendProperties
    <3> QED
      BY <1>1, <2>2, <3>2 DEF PushContext, Cxt
  <2>3. CASE ~(Len(s) < MaxCxt) /\ s = <<>>
    BY <2>3 DEF PushContext
  <2> QED
    BY <2>1, <2>2, <2>3
<1>4. s # <<>> => SubSeq(s, 1, Len(s) - 1) \in Cxt
  BY <1>1, PrefixType, EmptySeq
<1> QED
  BY <1>2, <1>3, <1>4 DEF Context, Plain

(* The flag of a context stays a flag.                                     *)
LEMMA ConcreteType ==
  ASSUME NEW w, NEW s, NEW conc \in BOOLEAN, NEW g
  PROVE  Concrete(w, s, conc, g) \in BOOLEAN
BY DEF Concrete

(* The union of points-to sets has elements of both and nothing else.      *)
LEMMA UnionPtsSubset ==
  ASSUME NEW A, NEW B
  PROVE  A \subseteq UnionPts(A, B) /\ UnionPts(A, B) \subseteq A \union B
BY DEF UnionPts

(* A gep maps pointees to pointees, each from one with the same field.     *)
LEMMA GepPtsFrom ==
  ASSUME prog \in Programs, NEW n \in Var, NEW pts \in SUBSET CVar
  PROVE  /\ GepPts(prog, n, pts) \in SUBSET CVar
         /\ \A d \in GepPts(prog, n, pts) : \E c \in pts : d.id = prog.field[n][c.id]
<1> DEFINE fields == {[c EXCEPT !.id = prog.field[n][c.id]] : c \in pts}
<1>1. \A c \in pts : /\ [c EXCEPT !.id = prog.field[n][c.id]] \in CVar
                     /\ [c EXCEPT !.id = prog.field[n][c.id]].id = prog.field[n][c.id]
  <2> TAKE c \in pts
  <2>1. prog.field[n] \in [Obj -> Obj] /\ c \in CVar /\ c.id \in Obj
    BY ProgramParts DEF CVar
  <2> QED
    BY <2>1 DEF CVar
<1>2. \A d \in fields : d \in CVar /\ \E c \in pts : d.id = prog.field[n][c.id]
  BY <1>1
<1> HIDE DEF fields
<1>3. \A c \in fields : (CHOOSE d \in fields : SameElement(c, d)) \in fields
  BY DEF SameElement
<1>4. GepPts(prog, n, pts) = {CHOOSE d \in fields : SameElement(c, d) : c \in fields}
  BY DEF GepPts, fields
<1> QED
  BY <1>2, <1>3, <1>4

(* The cache holds objects with contexts.                                  *)
LEMMA CachedType ==
  ASSUME TypeOK, NEW e \in Engine, NEW k
  PROVE  CachedPts(e, k) \in SUBSET CVar
BY DEF TypeOK, CachedPts

(* The stack.                                                              *)
LEMMA TopType ==
  ASSUME TypeOK, stack # <<>>
  PROVE  /\ top \in Frame /\ Below \in Seq(Frame) /\ Len(stack) \in Nat /\ Len(stack) > 0
         /\ \A f \in Frame : Replace(f) \in Seq(Frame)
<1>1. stack \in Seq(Frame) /\ Len(stack) \in Nat /\ Len(stack) > 0
  BY EmptySeq, LenProperties DEF TypeOK
<1>2. top \in Frame
  BY <1>1, ElementOfSeq DEF top
<1>3. Below \in Seq(Frame)
  BY <1>1, SubSeqProperties DEF Below
<1>4. \A f \in Frame : Replace(f) \in Seq(Frame)
  BY <1>3, AppendProperties DEF Replace
<1> QED
  BY <1>1, <1>2, <1>3, <1>4

LEMMA GiveType ==
  ASSUME NEW st \in Seq(Frame), NEW pts \in SUBSET CVar
  PROVE  Give(st, pts) \in Seq(Frame)
<1>1. CASE st = <<>>
  BY <1>1 DEF Give
<1>2. CASE st # <<>>
  <2> DEFINE f == st[Len(st)]
             new == CASE f.into = "pts" -> [f EXCEPT !.pts = UnionPts(@, pts)]
                      [] f.into = "base" -> [f EXCEPT !.base = UnionPts(@, pts)]
                      [] f.into = "none" -> f
  <2>1. Len(st) \in Nat /\ Len(st) > 0 /\ Len(st) \in 1..Len(st)
    BY <1>2, EmptySeq, LenProperties
  <2>2. f \in Frame
    BY <2>1, ElementOfSeq
  <2>3. f.into \in {"pts", "base", "none"} /\ UnionPts(f.pts, pts) \in SUBSET CVar
        /\ UnionPts(f.base, pts) \in SUBSET CVar
    BY <2>2, UnionPtsSubset DEF Frame
  <2>4. new \in Frame
    BY <2>2, <2>3 DEF Frame
  <2> HIDE DEF new
  <2>5. [st EXCEPT ![Len(st)] = new] \in Seq(Frame)
    BY <2>1, <2>4, ExceptSeq
  <2> QED
    BY <1>2, <2>5 DEF Give, new
<1> QED
  BY <1>1, <1>2

LEMMA NewFrameType ==
  ASSUME prog \in Programs, NEW d \in Item, NEW stage \in Stage, NEW E \in SUBSET Edge
  PROVE  NewFrame(d, stage, E) \in Frame
<1>1. prog.resolves[d.at.loc] \in SUBSET Var
  BY ProgramParts DEF Item, Key
<1> QED
  BY <1>1 DEF NewFrame, Frame

Computing ==                        \* the part of the state that a call of findPT() may change
  /\ stack' \in Seq(Frame)
  /\ visited' \in [Engine -> SUBSET Key] /\ recorded' \in [Engine -> SUBSET Item]
  /\ steps' \in [Engine -> Nat] /\ oob' \in [Engine -> BOOLEAN]

LEMMA FindPTType ==
  ASSUME Valid, NEW d \in Item, NEW vis \in SUBSET Key, NEW st \in Seq(Frame),
         FindPT(d, vis, st)
  PROVE  Computing
<1>1. d.at \in Key /\ engine \in Engine
  BY DEF Valid, TypeOK, Item
<1>2. visited' \in [Engine -> SUBSET Key]
  BY <1>1 DEF FindPT, Valid, TypeOK
<1>3. recorded' \in [Engine -> SUBSET Item]
  <2>1. Insert(recorded[engine], d) \in SUBSET Item
    BY <1>1 DEF Insert, Valid, TypeOK
  <2> QED
    BY <1>1, <2>1 DEF FindPT, Valid, TypeOK
<1>4. steps' \in [Engine -> Nat]
  BY <1>1 DEF FindPT, Valid, TypeOK
<1>5. oob' \in [Engine -> BOOLEAN]
  <2>1. (oob[engine] \/ steps[engine] + 1 > prog.budget[engine]) \in BOOLEAN
    OBVIOUS
  <2> QED
    BY <1>1, <2>1 DEF FindPT, Valid, TypeOK
<1>6. stack' \in Seq(Frame)
  <2>1. Give(st, CachedPts(engine, d.at)) \in Seq(Frame)
    BY <1>1, GiveType, CachedType DEF Valid
  <2>2. Append(st, NewFrame(d, "funptr", {})) \in Seq(Frame)
    BY NewFrameType, AppendProperties DEF Valid, Stage
  <2> QED
    BY <2>1, <2>2 DEF FindPT
<1> QED
  BY <1>2, <1>3, <1>4, <1>5, <1>6 DEF Computing

LEMMA UpdateType ==
  ASSUME Valid, NEW e \in Engine, NEW d \in Item, NEW pts \in SUBSET CVar,
         NEW st \in Seq(Frame), UpdateCachedPointsTo(e, d, pts, st)
  PROVE  /\ stack' \in Seq(Frame)
         /\ cache' \in [Engine -> SUBSET [at : Key, to : CVar]]
         /\ edges' \in [Engine -> SUBSET Edge]
         /\ called' \in [Engine -> SUBSET CallId] /\ sccCalls' \in [Engine -> SUBSET CallId]
<1> DEFINE old == CachedPts(e, d.at)
           all == UnionPts(old, pts)
           new == {c \in prog.icalls : /\ c.fp = d.at.cur /\ \E o \in all : o.id = c.target
                                       /\ c.id \notin called[e]}
           connected == UNION {c.edges : c \in new}
<1>1. CASE all = old
  <2>1. Give(st, old) \in Seq(Frame)
    BY GiveType, CachedType DEF Valid
  <2> QED
    BY <1>1, <2>1 DEF UpdateCachedPointsTo, graph, Valid, TypeOK
<1>2. CASE all # old
  <2>1. old \in SUBSET CVar /\ all \in SUBSET CVar
    BY CachedType, UnionPtsSubset DEF Valid
  <2>2. new \subseteq prog.icalls
    OBVIOUS
  <2>3. connected \in SUBSET Edge /\ {c.id : c \in new} \in SUBSET CallId
    <3> HIDE DEF new
    <3>1. \A c \in new : c.edges \in SUBSET Edge /\ c.id \in CallId
      BY <2>2, ProgramParts DEF Valid
    <3> QED
      BY <3>1
  <2>4. {[at |-> d.at, to |-> c] : c \in all} \in SUBSET [at : Key, to : CVar]
    <3> HIDE DEF all
    <3>1. d.at \in Key
      BY DEF Item
    <3> QED
      BY <2>1, <3>1
  <2>5. Append(st, NewFrame(d, "new", connected \ edges[e])) \in Seq(Frame)
    <3> HIDE DEF connected
    <3>1. NewFrame(d, "new", connected \ edges[e]) \in Frame
      BY <2>3, NewFrameType DEF Valid, Stage
    <3> QED
      BY <3>1, AppendProperties
  <2>6. /\ cache' = [cache EXCEPT ![e] = @ \union {[at |-> d.at, to |-> c] : c \in all}]
        /\ edges' = [edges EXCEPT ![e] = @ \union connected]
        /\ called' = [called EXCEPT ![e] = @ \union {c.id : c \in new}]
        /\ sccCalls' = IF connected \subseteq edges[e] THEN sccCalls
                       ELSE [sccCalls EXCEPT ![e] = called'[e]]
        /\ stack' = Append(st, NewFrame(d, "new", connected \ edges[e]))
    BY <1>2 DEF UpdateCachedPointsTo
  <2> HIDE DEF old, all, new, connected
  <2>7. called' \in [Engine -> SUBSET CallId]
    BY <2>3, <2>6 DEF Valid, TypeOK
  <2>8. cache' \in [Engine -> SUBSET [at : Key, to : CVar]]
    BY <2>4, <2>6 DEF Valid, TypeOK
  <2>9. edges' \in [Engine -> SUBSET Edge]
    BY <2>3, <2>6 DEF Valid, TypeOK
  <2>10. sccCalls' \in [Engine -> SUBSET CallId]
    BY <2>6, <2>7 DEF Valid, TypeOK
  <2> QED
    BY <2>5, <2>6, <2>7, <2>8, <2>9, <2>10
<1> QED
  BY <1>1, <1>2

LEMMA ItemOfType ==
  ASSUME NEW v \in Var, NEW s \in Cxt, NEW conc \in BOOLEAN
  PROVE  ItemOf(v, s, conc) \in Item
BY DEF ItemOf, Item, Key, Node

(* The empty call string is within every bound.                            *)
LEMMA EmptyCxt == <<>> \in Cxt
<1>1. <<>> \in Seq(CallId) /\ Len(<<>>) = 0
  BY EmptySeq
<1> QED
  BY <1>1, NamesAssumption DEF Cxt

(* computeDDAPts() starts with one frame for the variable asked for.       *)
LEMMA ComputeType ==
  ASSUME Valid, NEW e \in Engine, NEW v \in Var, ComputeDDAPts(e, v)
  PROVE  /\ Computing
         /\ loadVar' \in [Engine -> SUBSET [at : Key, var : CVar]]
         /\ engine' \in Engine /\ pc' = "finding"
<1> DEFINE root == ItemOf(v, <<>>, TRUE)
           vis == IF oob[e] THEN OOBResetVisited(e) ELSE visited[e]
<1>1. root \in Item /\ root.at \in Key
  BY ItemOfType, EmptyCxt DEF Item
<1>2. vis \in SUBSET Key
  BY DEF OOBResetVisited, Valid, TypeOK
<1>3. visited' \in [Engine -> SUBSET Key]
  <2>1. visited' = [visited EXCEPT ![e] = vis \union {root.at}]
    BY DEF ComputeDDAPts
  <2> HIDE DEF vis, root
  <2> QED
    BY <1>1, <1>2, <2>1 DEF Valid, TypeOK
<1>4. recorded' \in [Engine -> SUBSET Item]
  <2>1. recorded' = [recorded EXCEPT ![e] = IF root.at \in vis THEN {} ELSE {root}]
    BY DEF ComputeDDAPts, Met
  <2> HIDE DEF vis, root
  <2> QED
    BY <1>1, <2>1 DEF Valid, TypeOK
<1>5. steps' \in [Engine -> Nat] /\ loadVar' \in [Engine -> SUBSET [at : Key, var : CVar]]
      /\ engine' \in Engine /\ pc' = "finding"
  BY DEF ComputeDDAPts, Valid, TypeOK
<1>6. oob' \in [Engine -> BOOLEAN]
  <2>1. oob' = [oob EXCEPT ![e] = ~(root.at \in vis) /\ prog.budget[e] = 0]
    BY DEF ComputeDDAPts
  <2> HIDE DEF vis, root
  <2>2. (~(root.at \in vis) /\ prog.budget[e] = 0) \in BOOLEAN
    OBVIOUS
  <2> QED
    BY <2>1, <2>2 DEF Valid, TypeOK
<1>7. stack' \in Seq(Frame)
  <2>1. stack' = <<>> \/ stack' = <<NewFrame(root, "funptr", {})>>
    BY DEF ComputeDDAPts
  <2>2. NewFrame(root, "funptr", {}) \in Frame
    BY <1>1, NewFrameType DEF Valid, Stage
  <2> HIDE DEF root
  <2>3. <<>> \in Seq(Frame) /\ \A f \in Frame : <<f>> \in Seq(Frame)
    BY EmptySeq
  <2> QED
    BY <2>1, <2>2, <2>3
<1> QED
  BY <1>3, <1>4, <1>5, <1>6, <1>7 DEF Computing

-----------------------------------------------------------------------------
(* Type correctness, action by action.                                     *)

LEMMA InitType ==
  ASSUME Init
  PROVE  Valid
<1>1. <<>> \in Seq(Frame)
  BY EmptySeq
<1> QED
  BY <1>1, ProgramParts DEF Init, Valid, TypeOK

LEMMA StartQueryType ==
  ASSUME Valid, NEW v \in queries, StartQuery(v)
  PROVE  Valid'
<1>1. v \in Var /\ prog.engine \in Engine
  BY ProgramParts DEF Valid, TypeOK
<1>2. /\ Computing
      /\ loadVar' \in [Engine -> SUBSET [at : Key, var : CVar]]
      /\ engine' \in Engine /\ pc' = "finding"
  BY <1>1, ComputeType DEF StartQuery
<1> QED
  BY <1>1, <1>2 DEF StartQuery, Valid, TypeOK, Computing, graph

(* The parts of an item.                                                   *)
LEMMA ItemParts ==
  ASSUME NEW f \in Frame
  PROVE  /\ f.item \in Item /\ f.item.at \in Key /\ f.item.at.loc \in Node
         /\ f.item.at.cur \in Var \union Obj /\ f.item.at.cxt \in Cxt /\ f.item.conc \in BOOLEAN
BY DEF Frame, Item, Key

LEMMA ResolveFunPtrType ==
  ASSUME Valid, NEW v \in Var, ResolveFunPtr(v)
  PROVE  Valid'
<1>1. top \in Frame /\ \A f \in Frame : Replace(f) \in Seq(Frame)
  BY TopType DEF ResolveFunPtr, Running, Valid
<1>2. ItemOf(v, top.item.at.cxt, top.item.conc) \in Item
  BY <1>1, ItemParts, ItemOfType
<1>3. [top EXCEPT !.funs = @ \ {v}] \in Frame
  BY <1>1 DEF Frame
<1>4. visited[engine] \in SUBSET Key
  BY DEF Valid, TypeOK
<1>5. Computing
  BY <1>1, <1>2, <1>3, <1>4, FindPTType DEF ResolveFunPtr
<1> QED
  BY <1>5 DEF ResolveFunPtr, Valid, TypeOK, Computing, inQuery, graph

(* Value-flow edges lead to items.                                         *)
LEMMA VisitTypes ==
  ASSUME Valid, NEW k \in Key, NEW v
  PROVE  /\ DirectVF(engine, k) \in SUBSET Visit /\ OperandVF(engine, k, v) \in SUBSET Visit
         /\ IndirectVF(engine, k) \in SUBSET Visit
<1>1. edges[engine] \in SUBSET Edge
  BY DEF Valid, TypeOK
<1>2. \A g \in edges[engine] : [edge |-> g, from |-> k] \in Visit
  BY <1>1 DEF Visit
<1> QED
  BY <1>2 DEF DirectVF, OperandVF, IndirectVF

(* A step that changes only the frame on top, and what is looked for.      *)
LEMMA OnlyTopType ==
  ASSUME Valid, stack' \in Seq(Frame), UNCHANGED onlyTop,
         loadVar' \in [Engine -> SUBSET [at : Key, var : CVar]]
  PROVE  Valid'
BY DEF Valid, TypeOK, onlyTop, inQuery, graph

LEMMA BeginStatementType ==
  ASSUME Valid, BeginStatement
  PROVE  Valid'
<1> DEFINE k == top.item.at
           n == k.loc
<1>1. top \in Frame /\ \A f \in Frame : Replace(f) \in Seq(Frame)
  BY TopType DEF BeginStatement, Running, Valid
<1>2. k \in Key /\ n \in Node /\ k.cxt \in Cxt /\ top.item.conc \in BOOLEAN
  BY <1>1, ItemParts
<1>3. prog.kind[n] = "addr" => prog.obj[n] \in Obj
  BY <1>2, ProgramShape DEF Valid, Node
<1>4. prog.kind[n] \in {"addr", "copy", "gep", "load", "store", "mr"}
  BY <1>2, ProgramParts DEF Valid
<1>5. \A v : /\ DirectVF(engine, k) \in SUBSET Visit /\ OperandVF(engine, k, v) \in SUBSET Visit
            /\ IndirectVF(engine, k) \in SUBSET Visit
  BY <1>2, VisitTypes
<1>6. ASSUME prog.kind[n] = "addr"
      PROVE  [top EXCEPT !.stage = "stmt",
                !.pts = {[id |-> prog.obj[n], cxt |-> k.cxt, conc |-> top.item.conc]}] \in Frame
  <2>1. {[id |-> prog.obj[n], cxt |-> k.cxt, conc |-> top.item.conc]} \in SUBSET CVar
    BY <1>2, <1>3, <1>6 DEF CVar
  <2> QED
    BY <1>1, <2>1 DEF Frame, Stage
<1>7. \A V \in SUBSET Visit :
        /\ [top EXCEPT !.stage = "stmt", !.into = "pts", !.visits = V] \in Frame
        /\ [top EXCEPT !.stage = "base", !.into = "base", !.visits = V] \in Frame
  BY <1>1 DEF Frame, Stage
<1> HIDE DEF k, n
<1>8. stack' \in Seq(Frame)
  BY <1>1, <1>4, <1>5, <1>6, <1>7 DEF BeginStatement, k, n
<1> QED
  BY <1>8, OnlyTopType DEF BeginStatement, Valid, TypeOK

(* The item at the other end of an edge is an item.                        *)
LEMMA SourceType ==
  ASSUME Valid, NEW f \in Frame, NEW x \in f.visits, NEW w
  PROVE  [at |-> [loc |-> x.edge.src, cur |-> IF x.edge.ind THEN x.from.cur ELSE x.edge.src,
                  cxt |-> Context(w, f.item.at.cxt, x.edge)],
          conc |-> Concrete(w, f.item.at.cxt, f.item.conc, x.edge)] \in Item
<1>1. x \in Visit /\ x.edge \in Edge /\ x.from.cur \in Var \union Obj
  BY DEF Frame, Visit, Key
<1>2. x.edge.src \in Node /\ (~x.edge.ind => x.edge.src \in Var)
  BY <1>1 DEF Edge
<1>3. Context(w, f.item.at.cxt, x.edge) \in Cxt
  BY <1>1, ItemParts, ContextType
<1>4. Concrete(w, f.item.at.cxt, f.item.conc, x.edge) \in BOOLEAN
  BY ItemParts, ConcreteType
<1> QED
  BY <1>1, <1>2, <1>3, <1>4 DEF Item, Key

LEMMA BackwardPropDpmType ==
  ASSUME Valid, stack # <<>>, NEW x \in top.visits, BackwardPropDpm(x)
  PROVE  Valid'
<1> DEFINE g == x.edge
           s == top.item.at.cxt
           d == [at |-> [loc |-> g.src, cur |-> IF g.ind THEN x.from.cur ELSE g.src,
                         cxt |-> Context(Now, s, g)],
                 conc |-> Concrete(Now, s, top.item.conc, g)]
           rest == Replace([top EXCEPT !.visits = @ \ {x}])
<1>1. top \in Frame /\ \A f \in Frame : Replace(f) \in Seq(Frame)
  BY TopType DEF Valid
<1>2. d \in Item /\ d.at \in Key
  BY <1>1, SourceType DEF Item
<1>3. rest \in Seq(Frame)
  <2>1. [top EXCEPT !.visits = @ \ {x}] \in Frame
    BY <1>1 DEF Frame
  <2> QED
    BY <1>1, <2>1
<1>4. visited[engine] \in SUBSET Key /\ engine \in Engine
  BY DEF Valid, TypeOK
<1>5. UNCHANGED <<inQuery, cache, graph>>
  BY DEF BackwardPropDpm
<1>6. CASE /\ Feasible(Now, s, g)
           /\ \/ ~g.ind /\ UNCHANGED loadVar
              \/ /\ g.ind
                 /\ \E m \in loadVar[engine] :
                      /\ m.at = x.from
                      /\ loadVar' = [loadVar EXCEPT ![engine] = Put(@, d.at, m.var)]
           /\ FindPT(d, visited[engine], rest)
  <2> HIDE DEF d, rest, g, s
  <2>1. Computing
    BY <1>2, <1>3, <1>4, <1>6, FindPTType
  <2>2. loadVar' \in [Engine -> SUBSET [at : Key, var : CVar]]
    <3>1. CASE UNCHANGED loadVar
      BY <3>1 DEF Valid, TypeOK
    <3>2. CASE \E m \in loadVar[engine] : loadVar' = [loadVar EXCEPT ![engine] = Put(@, d.at, m.var)]
      <4>1. PICK m \in loadVar[engine] : loadVar' = [loadVar EXCEPT ![engine] = Put(@, d.at, m.var)]
        BY <3>2
      <4>2. m.var \in CVar /\ loadVar[engine] \in SUBSET [at : Key, var : CVar]
        BY <1>4 DEF Valid, TypeOK
      <4>3. Put(loadVar[engine], d.at, m.var) \in SUBSET [at : Key, var : CVar]
        BY <1>2, <4>2 DEF Put
      <4> QED
        BY <1>4, <4>1, <4>3 DEF Valid, TypeOK
    <3> QED
      BY <1>6, <3>1, <3>2
  <2> QED
    BY <1>5, <2>1, <2>2 DEF Valid, TypeOK, Computing, inQuery, graph
<1>7. CASE /\ oob' = [oob EXCEPT ![engine] = @ \/ Repeated(Now, s, g)]
           /\ stack' = rest
           /\ UNCHANGED <<visited, recorded, loadVar, steps>>
  <2> HIDE DEF d, rest, g, s
  <2>1. oob' \in [Engine -> BOOLEAN]
    <3>1. (oob[engine] \/ Repeated(Now, s, g)) \in BOOLEAN
      OBVIOUS
    <3> QED
      BY <1>4, <1>7, <3>1 DEF Valid, TypeOK
  <2> QED
    BY <1>3, <1>5, <1>7, <2>1 DEF Valid, TypeOK, inQuery, graph
<1> QED
  BY <1>6, <1>7 DEF BackwardPropDpm

(* Recording what an item looks for.                                       *)
LEMMA LookForType ==
  ASSUME Valid, NEW k \in Key, NEW c \in CVar, LookFor(k, c)
  PROVE  loadVar' \in [Engine -> SUBSET [at : Key, var : CVar]]
<1>1. engine \in Engine /\ loadVar[engine] \in SUBSET [at : Key, var : CVar]
  BY DEF Valid, TypeOK
<1>2. Put(loadVar[engine], k, c) \in SUBSET [at : Key, var : CVar]
  BY <1>1 DEF Put
<1> QED
  BY <1>1, <1>2 DEF LookFor, Valid, TypeOK

LEMMA BaseDoneType ==
  ASSUME Valid, BaseDone
  PROVE  Valid'
<1>1. top \in Frame /\ \A f \in Frame : Replace(f) \in Seq(Frame)
  BY TopType DEF BaseDone, Idle, Running, Valid
<1>2. [top EXCEPT !.stage = "stmt", !.into = "pts", !.objs = top.base] \in Frame
  BY <1>1 DEF Frame, Stage
<1>3. stack' \in Seq(Frame)
  BY <1>1, <1>2 DEF BaseDone
<1> QED
  BY <1>3, OnlyTopType DEF BaseDone, Valid, TypeOK

LEMMA LoadObjectType ==
  ASSUME Valid, stack # <<>>, NEW c \in top.objs, LoadObject(c)
  PROVE  Valid'
<1> DEFINE k == ObjKey(top.item.at, c)
<1>1. top \in Frame /\ \A f \in Frame : Replace(f) \in Seq(Frame)
  BY TopType DEF Valid
<1>2. c \in CVar /\ c.id \in Obj
  BY <1>1 DEF Frame, CVar
<1>3. k \in Key
  BY <1>1, <1>2, ItemParts DEF ObjKey, Key
<1>4. [Rest(c) EXCEPT !.visits = IndirectVF(engine, k)] \in Frame
  BY <1>1, <1>3, VisitTypes DEF Frame, Rest
<1>5. loadVar' \in [Engine -> SUBSET [at : Key, var : CVar]]
  BY <1>2, <1>3, LookForType DEF LoadObject
<1>6. stack' \in Seq(Frame)
  BY <1>1, <1>4 DEF LoadObject
<1> QED
  BY <1>5, <1>6, OnlyTopType DEF LoadObject

LEMMA StoreObjectType ==
  ASSUME Valid, stack # <<>>, NEW c \in top.objs, StoreObject(c)
  PROVE  Valid'
<1> DEFINE k == top.item.at
<1>1. top \in Frame /\ \A f \in Frame : Replace(f) \in Seq(Frame)
  BY TopType DEF Valid
<1>2. c \in CVar /\ k \in Key
  BY <1>1, ItemParts DEF Frame
<1>3. \/ /\ LookFor(k, c)
         /\ stack' = Replace([Rest(c) EXCEPT !.weak = c,
                                !.visits = OperandVF(engine, k, prog.src[k.loc])])
      \/ /\ stack' = Replace([Rest(c) EXCEPT !.visits = IndirectVF(engine, k)])
         /\ UNCHANGED loadVar
  BY DEF StoreObject
<1>4. [Rest(c) EXCEPT !.weak = c, !.visits = OperandVF(engine, k, prog.src[k.loc])] \in Frame
  BY <1>1, <1>2, VisitTypes DEF Frame, Rest
<1>5. [Rest(c) EXCEPT !.visits = IndirectVF(engine, k)] \in Frame
  BY <1>1, <1>2, VisitTypes DEF Frame, Rest
<1>6. stack' \in Seq(Frame)
  BY <1>1, <1>3, <1>4, <1>5
<1>7. loadVar' \in [Engine -> SUBSET [at : Key, var : CVar]]
  BY <1>2, <1>3, LookForType DEF Valid, TypeOK
<1> QED
  BY <1>6, <1>7, OnlyTopType DEF StoreObject

LEMMA OldValuesType ==
  ASSUME Valid, OldValues
  PROVE  Valid'
<1> DEFINE k == top.item.at
<1>1. top \in Frame /\ \A f \in Frame : Replace(f) \in Seq(Frame)
  BY TopType DEF OldValues, Idle, Running, Valid
<1>2. top.weak \in CVar /\ k \in Key
  BY <1>1, ItemParts DEF Frame, OldValues
<1>3. [top EXCEPT !.weak = None] \in Frame
      /\ [top EXCEPT !.weak = None, !.visits = IndirectVF(engine, k)] \in Frame
  BY <1>1, <1>2, VisitTypes DEF Frame
<1>4. stack' \in Seq(Frame)
  BY <1>1, <1>3 DEF OldValues
<1>5. loadVar' \in [Engine -> SUBSET [at : Key, var : CVar]]
  BY <1>2, LookForType DEF OldValues, Valid, TypeOK
<1> QED
  BY <1>4, <1>5, OnlyTopType DEF OldValues

(* What a statement hands to its cache.                                    *)
LEMMA StatementPts ==
  ASSUME Valid, NEW f \in Frame
  PROVE  (IF prog.kind[f.item.at.loc] = "gep" THEN GepPts(prog, f.item.at.loc, f.pts) ELSE f.pts)
           \in SUBSET CVar
<1>1. f.pts \in SUBSET CVar
  BY DEF Frame
<1>2. prog.kind[f.item.at.loc] = "gep" => f.item.at.loc \in Var
  BY ItemParts, ProgramShape DEF Valid, Node
<1> QED
  BY <1>1, <1>2, GepPtsFrom DEF Valid

LEMMA EndStatementType ==
  ASSUME Valid, EndStatement
  PROVE  Valid'
<1> DEFINE n == top.item.at.loc
           pts == IF prog.kind[n] = "gep" THEN GepPts(prog, n, top.pts) ELSE top.pts
<1>1. top \in Frame /\ Below \in Seq(Frame)
  BY TopType DEF EndStatement, Idle, Running, Valid
<1>2. pts \in SUBSET CVar /\ top.item \in Item /\ engine \in Engine
  BY <1>1, StatementPts, ItemParts DEF Valid, TypeOK
<1>3. UpdateCachedPointsTo(engine, top.item, pts, Below)
  BY DEF EndStatement
<1> HIDE DEF pts, n
<1>4. /\ stack' \in Seq(Frame)
      /\ cache' \in [Engine -> SUBSET [at : Key, to : CVar]]
      /\ edges' \in [Engine -> SUBSET Edge]
      /\ called' \in [Engine -> SUBSET CallId] /\ sccCalls' \in [Engine -> SUBSET CallId]
  BY <1>1, <1>2, <1>3, UpdateType
<1> QED
  BY <1>4 DEF EndStatement, Valid, TypeOK, inQuery

LEMMA NextEdgeType ==
  ASSUME Valid, stack # <<>>, NEW g \in top.edges, NextEdge(g)
  PROVE  Valid'
<1>1. top \in Frame /\ \A f \in Frame : Replace(f) \in Seq(Frame)
  BY TopType DEF Valid
<1>2. Affected(engine, top.item.at, g, top.stage = "new") \in SUBSET Item
  BY DEF Affected, Valid, TypeOK
<1>3. [top EXCEPT !.edges = @ \ {g}, !.items = Affected(engine, top.item.at, g, top.stage = "new")]
        \in Frame
  BY <1>1, <1>2 DEF Frame
<1>4. stack' \in Seq(Frame)
  BY <1>1, <1>3 DEF NextEdge
<1> QED
  BY <1>4, OnlyTopType DEF NextEdge, Valid, TypeOK

LEMMA ReComputeType ==
  ASSUME Valid, stack # <<>>, NEW d \in top.items, ReCompute(d)
  PROVE  Valid'
<1>1. top \in Frame /\ \A f \in Frame : Replace(f) \in Seq(Frame)
  BY TopType DEF Valid
<1>2. d \in Item /\ [top EXCEPT !.items = @ \ {d}] \in Frame
  BY <1>1 DEF Frame
<1>3. visited[engine] \ {d.at} \in SUBSET Key
  BY DEF Valid, TypeOK
<1>4. Computing
  BY <1>1, <1>2, <1>3, FindPTType DEF ReCompute
<1> QED
  BY <1>4 DEF ReCompute, Valid, TypeOK, Computing, inQuery, graph

LEMMA OutEdgesType ==
  ASSUME Valid, OutEdges
  PROVE  Valid'
<1>1. top \in Frame /\ \A f \in Frame : Replace(f) \in Seq(Frame)
  BY TopType DEF OutEdges, Running, Valid
<1>2. {g \in edges[engine] : g.src = top.item.at.loc} \in SUBSET Edge
  BY DEF Valid, TypeOK
<1>3. [top EXCEPT !.stage = "out", !.edges = {g \in edges[engine] : g.src = top.item.at.loc}]
        \in Frame
  BY <1>1, <1>2 DEF Frame, Stage
<1>4. stack' \in Seq(Frame)
  BY <1>1, <1>3 DEF OutEdges
<1> QED
  BY <1>4, OnlyTopType DEF OutEdges, Valid, TypeOK

LEMMA ReturnType ==
  ASSUME Valid, Return
  PROVE  Valid'
<1>1. Below \in Seq(Frame)
  BY TopType DEF Return, Running, Valid
<1>2. CachedPts(engine, top.item.at) \in SUBSET CVar
  BY CachedType DEF Valid, TypeOK
<1>3. stack' \in Seq(Frame)
  BY <1>1, <1>2, GiveType DEF Return
<1> QED
  BY <1>3, OnlyTopType DEF Return, Valid, TypeOK

(* A query asks for a variable.                                            *)
LEMMA RootType ==
  ASSUME Valid, pc # "answered"
  PROVE  Root \in Item /\ Root.at \in Key /\ query \in Var
BY ItemOfType, EmptyCxt DEF Root, Item, Valid, TypeOK

(* An answer lists objects for the variable asked for.                     *)
LEMMA AnswersType ==
  ASSUME Valid, pc # "answered", NEW pts \in SUBSET CVar, Answers(pts)
  PROVE  answers' \subseteq [at : Key, to : CVar]
<1>1. {[at |-> Root.at, to |-> c] : c \in pts} \subseteq [at : Key, to : CVar]
  BY RootType
<1> QED
  BY <1>1 DEF Answers, Valid, TypeOK

(* A result of the pre-analysis holds for every context.                   *)
LEMMA ConservativeType ==
  ASSUME NEW ids \in SUBSET Obj
  PROVE  Conservative(ids) \in SUBSET CVar /\ \A c \in Conservative(ids) : c.id \in ids
<1>1. \A o \in ids : [id |-> o, cxt |-> <<>>, conc |-> TRUE] \in CVar
  BY EmptyCxt DEF CVar
<1> QED
  BY <1>1 DEF Conservative

LEMMA FlowPtsType ==
  ASSUME Valid
  PROVE  /\ FlowPts \in SUBSET CVar
         /\ \A c \in FlowPts : \E d \in CachedPts("flow", Root.at) : c.id = d.id
<1>1. CachedPts("flow", Root.at) \in SUBSET CVar
  BY CachedType DEF Valid, Engine
<1>2. {c.id : c \in CachedPts("flow", Root.at)} \in SUBSET Obj
  BY <1>1 DEF CVar
<1> QED
  BY <1>2, ConservativeType DEF FlowPts

LEMMA AnswerInBudgetType ==
  ASSUME Valid, AnswerInBudget
  PROVE  Valid'
<1>1. CachedPts("cxt", Root.at) \in SUBSET CVar
  BY CachedType DEF Valid, Engine
<1>2. answers' \subseteq [at : Key, to : CVar]
  BY <1>1, AnswersType DEF AnswerInBudget, Valid, TypeOK
<1> QED
  BY <1>2 DEF AnswerInBudget, Valid, TypeOK, graph

LEMMA DowngradeType ==
  ASSUME Valid, Downgrade
  PROVE  Valid'
<1>1. query \in Var /\ "flow" \in Engine
  BY DEF Downgrade, Valid, TypeOK, Engine
<1>2. /\ Computing
      /\ loadVar' \in [Engine -> SUBSET [at : Key, var : CVar]]
      /\ engine' \in Engine /\ pc' = "finding"
  BY <1>1, ComputeType DEF Downgrade
<1> QED
  BY <1>1, <1>2 DEF Downgrade, Valid, TypeOK, Computing, graph

LEMMA DegradeFlowType ==
  ASSUME Valid, DegradeFlow
  PROVE  Valid'
<1>1. Root \in Item /\ query \in Var /\ stack \in Seq(Frame) /\ <<>> \in Seq(Frame) /\ "flow" \in Engine
  BY RootType DEF DegradeFlow, Valid, TypeOK, Engine
<1>2. Conservative(prog.ander[query]) \in SUBSET CVar
  BY <1>1, ProgramParts, ConservativeType DEF Valid
<1>3. /\ stack' \in Seq(Frame)
      /\ cache' \in [Engine -> SUBSET [at : Key, to : CVar]]
      /\ edges' \in [Engine -> SUBSET Edge]
      /\ called' \in [Engine -> SUBSET CallId] /\ sccCalls' \in [Engine -> SUBSET CallId]
  BY <1>1, <1>2, UpdateType DEF DegradeFlow
<1> QED
  BY <1>1, <1>3 DEF DegradeFlow, Valid, TypeOK

LEMMA DegradeContextType ==
  ASSUME Valid, DegradeContext
  PROVE  Valid'
<1>1. Root \in Item /\ Root.at \in Key /\ query \in Var /\ <<>> \in Seq(Frame)
      /\ "cxt" \in Engine /\ "flow" \in Engine
  BY RootType DEF DegradeContext, Valid, TypeOK, Engine
<1>2. /\ stack' \in Seq(Frame)
      /\ cache' \in [Engine -> SUBSET [at : Key, to : CVar]]
      /\ edges' \in [Engine -> SUBSET Edge]
      /\ called' \in [Engine -> SUBSET CallId] /\ sccCalls' \in [Engine -> SUBSET CallId]
  BY <1>1, FlowPtsType, UpdateType DEF DegradeContext
<1>3. beyond' \in [Engine -> SUBSET Key]
  BY <1>1 DEF DegradeContext, Valid, TypeOK
<1> QED
  BY <1>1, <1>2, <1>3 DEF DegradeContext, Valid, TypeOK

LEMMA AnswerDegradedType ==
  ASSUME Valid, AnswerDegraded
  PROVE  Valid'
<1>1. Root.at \in Key
  BY RootType DEF AnswerDegraded
<1>2. answers' \subseteq [at : Key, to : CVar]
  BY AnswersType, FlowPtsType DEF AnswerDegraded, Valid, TypeOK
<1>3. beyond' \in [Engine -> SUBSET Key]
  BY <1>1 DEF AnswerDegraded, Valid, TypeOK
<1> QED
  BY <1>1, <1>2, <1>3 DEF AnswerDegraded, Valid, TypeOK, graph

LEMMA NextType ==
  ASSUME Valid, [Next]_vars
  PROVE  Valid'
<1>1. CASE \E v \in queries : StartQuery(v)
  BY <1>1, StartQueryType
<1>2. CASE Statement
  BY <1>2, ResolveFunPtrType, BeginStatementType, BackwardPropDpmType, BaseDoneType,
     LoadObjectType, StoreObjectType, OldValuesType, EndStatementType DEF Statement
<1>3. CASE Recomputation
  BY <1>3, NextEdgeType, ReComputeType, OutEdgesType, ReturnType DEF Recomputation
<1>4. CASE EndOfQuery
  BY <1>4, AnswerInBudgetType, DowngradeType, DegradeFlowType, DegradeContextType,
     AnswerDegradedType DEF EndOfQuery
<1>5. CASE UNCHANGED vars
  BY <1>5 DEF vars, graph, Valid, TypeOK
<1> QED
  BY <1>1, <1>2, <1>3, <1>4, <1>5 DEF Next, Terminated

(* In every program, with every context limit and budget, the state keeps  *)
(* its types: call strings stay within the limit whatever edges are        *)
(* followed backwards.                                                     *)
THEOREM TypeCorrect == Spec => []TypeOK
<1>1. Init => Valid
  BY InitType
<1>2. Valid /\ [Next]_vars => Valid'
  BY NextType
<1>3. Valid => TypeOK
  BY DEF Valid
<1> QED
  BY <1>1, <1>2, <1>3, PTL DEF Spec
-----------------------------------------------------------------------------
(***************************************************************************)
(* Two safety properties of the demand-driven analysis.  Precision: what   *)
(* an activation of findPT() collects, what it waits for and what it looks *)
(* for all stay within the points-to sets of the pre-analysis.             *)
(* Assertions: what an activation asks again was computed in this query,   *)
(* and what it looks for along an edge through memory was recorded in it.  *)
(***************************************************************************)
(* The inductive invariant of precision.  Everything below speaks of a     *)
(* program p, which no step changes.                                       *)

(* An item at the node of a pointer asks for that pointer.                 *)
KeyFine(k) == k.loc \in Var => k.cur = k.loc

(* What a statement may collect, and what its pointer operand may hold.    *)
PtsBound(p, k) ==
  IF p.kind[k.loc] = "gep" THEN {o \in Obj : p.field[k.loc][o] \in p.ander[k.cur]}
  ELSE p.ander[k.cur]
BaseBound(p, k) ==
  CASE p.kind[k.loc] = "load" -> p.ander[p.src[k.loc]]
    [] p.kind[k.loc] = "store" -> p.ander[p.dst[k.loc]]
    [] OTHER -> Obj

(* An activation can take the values of a call it has pending.             *)
Flows(p, f, S) ==
  /\ f.into = "pts" => S \subseteq PtsBound(p, f.item.at)
  /\ f.into = "base" => S \subseteq BaseBound(p, f.item.at)
Yields(p, x) == p.ander[IF x.edge.ind THEN x.from.cur ELSE x.edge.src]

FrameFine(p, f) ==
  /\ KeyFine(f.item.at)
  /\ \A c \in f.pts : c.id \in PtsBound(p, f.item.at)
  /\ \A c \in f.base \union f.objs : c.id \in BaseBound(p, f.item.at)
  /\ f.weak # None => f.weak.id = f.item.at.cur /\ p.kind[f.item.at.loc] = "store"
  /\ \A x \in f.visits : Flows(p, f, Yields(p, x))
  /\ \A i \in f.items : KeyFine(i.at)
  /\ f.stage \in {"funptr", "new", "out"} => f.into = "none"
  /\ f.stage = "stmt" => f.into # "base"

Expects(p, st, v) == st # <<>> => Flows(p, st[Len(st)], p.ander[v])
StackFine(p, st) ==
  /\ \A i \in 1..Len(st) : FrameFine(p, st[i])
  /\ \A i \in 1..Len(st) : i < Len(st) => Flows(p, st[i], p.ander[st[i + 1].item.at.cur])

EdgesFine(p, E) ==
  \A e \in Engine : \A g \in E[e] :
    ~g.ind /\ p.kind[g.dst] \in {"copy", "gep"} => Holds(p, g)
RecordFine(R) == \A e \in Engine : \A i \in R[e] : KeyFine(i.at)
LoadVarFine(L) == \A e \in Engine : \A m \in L[e] : m.at.cur = m.var.id
CacheFine(p, C) == \A e \in Engine : \A m \in C[e] : m.to.id \in p.ander[m.at.cur]

IInv ==
  /\ Precise
  /\ EdgesFine(prog, edges) /\ RecordFine(recorded) /\ LoadVarFine(loadVar)
  /\ StackFine(prog, stack)

-----------------------------------------------------------------------------
(* The stack.                                                              *)

(* The youngest frame of a stack that stays within the pre-analysis.       *)
LEMMA ElementFine ==
  ASSUME NEW p, NEW st \in Seq(Frame), st # <<>>, StackFine(p, st)
  PROVE  FrameFine(p, st[Len(st)]) /\ st[Len(st)] \in Frame /\ Len(st) \in 1..Len(st)
<1>1. Len(st) \in 1..Len(st)
  BY EmptySeq, LenProperties
<1> QED
  BY <1>1, ElementOfSeq DEF StackFine

(* A call on top of such a stack.                                          *)
LEMMA PushFine ==
  ASSUME NEW p, NEW st \in Seq(Frame), StackFine(p, st), NEW f \in Frame, FrameFine(p, f),
         Expects(p, st, f.item.at.cur)
  PROVE  StackFine(p, Append(st, f)) /\ Append(st, f) \in Seq(Frame)
<1> DEFINE new == Append(st, f)
<1>1. /\ new \in Seq(Frame) /\ Len(new) = Len(st) + 1 /\ Len(st) \in Nat
      /\ \A i \in 1..Len(st) : new[i] = st[i]
      /\ new[Len(st) + 1] = f
  BY AppendProperties, LenProperties
<1> HIDE DEF new
<1>2. ASSUME NEW i \in 1..Len(new) PROVE FrameFine(p, new[i])
  BY <1>1, <1>2 DEF StackFine
<1>3. ASSUME NEW i \in 1..Len(new), i < Len(new)
      PROVE  Flows(p, new[i], p.ander[new[i + 1].item.at.cur])
  <2>1. CASE i = Len(st)
    <3>1. st # <<>>
      BY <1>1, <1>3, <2>1, EmptySeq
    <3>2. new[i] = st[Len(st)] /\ new[i + 1] = f
      BY <1>1, <1>3, <2>1
    <3> QED
      BY <3>1, <3>2 DEF Expects
  <2>2. CASE i # Len(st)
    <3>1. i \in 1..Len(st) /\ i < Len(st) /\ i + 1 \in 1..Len(st)
      BY <1>1, <1>3, <2>2
    <3> QED
      BY <1>1, <3>1 DEF StackFine
  <2> QED
    BY <2>1, <2>2
<1> QED
  BY <1>1, <1>2, <1>3 DEF StackFine, new

(* Its two parts.                                                          *)
LEMMA TopFine ==
  ASSUME TypeOK, stack # <<>>, NEW p, StackFine(p, stack)
  PROVE  /\ FrameFine(p, top) /\ StackFine(p, Below) /\ Expects(p, Below, top.item.at.cur)
         /\ top \in Frame /\ Below \in Seq(Frame)
<1> DEFINE n == Len(stack) - 1
<1>1. stack \in Seq(Frame) /\ n \in Nat /\ Len(stack) = n + 1
  BY TopType DEF TypeOK
<1>2. FrameFine(p, top) /\ top \in Frame
  BY <1>1, ElementFine DEF top
<1>3. Below \in Seq(Frame) /\ Len(Below) = n /\ \A i \in 1..n : Below[i] = stack[i]
  <2>1. \A i \in 1..n : stack[i] \in Frame
    BY <1>1, ElementOfSeq
  <2> QED
    BY <1>1, <2>1, SubSeqProperties DEF Below
<1>4. StackFine(p, Below)
  <2>1. ASSUME NEW i \in 1..n PROVE FrameFine(p, Below[i])
    BY <1>1, <1>3, <2>1 DEF StackFine
  <2>2. ASSUME NEW i \in 1..n, i < n
        PROVE  Flows(p, Below[i], p.ander[Below[i + 1].item.at.cur])
    <3>1. i \in 1..Len(stack) /\ i < Len(stack) /\ i + 1 \in 1..n
      BY <1>1, <2>2
    <3>2. Flows(p, stack[i], p.ander[stack[i + 1].item.at.cur])
      BY <3>1 DEF StackFine
    <3> QED
      BY <1>3, <3>1, <3>2
  <2> QED
    BY <1>3, <2>1, <2>2 DEF StackFine
<1>5. Expects(p, Below, top.item.at.cur)
  <2> SUFFICES ASSUME Below # <<>> PROVE Flows(p, Below[n], p.ander[top.item.at.cur])
    BY <1>3 DEF Expects
  <2>1. n \in 1..n
    BY <1>1, <1>3, EmptySeq
  <2>2. n \in 1..Len(stack) /\ n < Len(stack) /\ n + 1 = Len(stack)
    BY <1>1, <2>1
  <2>3. Flows(p, stack[n], p.ander[stack[n + 1].item.at.cur])
    BY <2>2 DEF StackFine
  <2> QED
    BY <1>3, <2>1, <2>2, <2>3 DEF top
<1> QED
  BY <1>2, <1>3, <1>4, <1>5

(* A new top for the same item.                                            *)
LEMMA ReplaceFine ==
  ASSUME TypeOK, stack # <<>>, NEW p, StackFine(p, stack), NEW f \in Frame, FrameFine(p, f),
         f.item = top.item
  PROVE  StackFine(p, Replace(f)) /\ Replace(f) \in Seq(Frame)
<1>1. StackFine(p, Below) /\ Expects(p, Below, f.item.at.cur) /\ Below \in Seq(Frame)
  BY TopFine
<1> QED
  BY <1>1, PushFine DEF Replace

(* What the new top waits for.                                             *)
LEMMA ReplaceExpects ==
  ASSUME TypeOK, stack # <<>>, NEW p, NEW f \in Frame, NEW v, Flows(p, f, p.ander[v])
  PROVE  Expects(p, Replace(f), v)
<1>1. Below \in Seq(Frame)
  BY TopType
<1>2. Replace(f)[Len(Replace(f))] = f
  BY <1>1, AppendProperties DEF Replace
<1> QED
  BY <1>2 DEF Expects

LEMMA GiveFine ==
  ASSUME NEW p, NEW st \in Seq(Frame), StackFine(p, st), NEW v, Expects(p, st, v),
         NEW pts, \A c \in pts : c.id \in p.ander[v], pts \in SUBSET CVar
  PROVE  StackFine(p, Give(st, pts))
<1>1. CASE st = <<>>
  BY <1>1 DEF Give
<1>2. CASE st # <<>>
  <2> DEFINE f == st[Len(st)]
             new == CASE f.into = "pts" -> [f EXCEPT !.pts = UnionPts(@, pts)]
                      [] f.into = "base" -> [f EXCEPT !.base = UnionPts(@, pts)]
                      [] f.into = "none" -> f
             to == [st EXCEPT ![Len(st)] = new]
  <2>1. FrameFine(p, f) /\ f \in Frame /\ Len(st) \in 1..Len(st) /\ Len(st) \in Nat
    BY <1>2, ElementFine, LenProperties
  <2>2. f.into \in {"pts", "base", "none"}
    BY <2>1 DEF Frame
  <2>3. Flows(p, f, p.ander[v])
    BY <1>2 DEF Expects
  <2> HIDE DEF f
  <2>4. new.item = f.item /\ new.into = f.into /\ new \in Frame
    <3>1. UnionPts(f.pts, pts) \in SUBSET CVar /\ UnionPts(f.base, pts) \in SUBSET CVar
      BY <2>1, UnionPtsSubset DEF Frame
    <3> QED
      BY <2>1, <2>2, <3>1 DEF Frame
  <2>5. \A c \in new.pts : c.id \in PtsBound(p, f.item.at)
    <3>1. new.pts \subseteq f.pts \union pts /\ (f.into # "pts" => new.pts = f.pts)
      BY <2>1, <2>2, UnionPtsSubset DEF Frame
    <3> HIDE DEF new
    <3> QED
      BY <2>1, <2>3, <3>1 DEF FrameFine, Flows
  <2>6. \A c \in new.base \union new.objs : c.id \in BaseBound(p, f.item.at)
    <3>1. /\ new.base \subseteq f.base \union pts /\ (f.into # "base" => new.base = f.base)
          /\ new.objs = f.objs
      BY <2>1, <2>2, UnionPtsSubset DEF Frame
    <3> HIDE DEF new
    <3> QED
      BY <2>1, <2>3, <3>1 DEF FrameFine, Flows
  <2>7. new.weak = f.weak /\ new.visits = f.visits /\ new.items = f.items /\ new.stage = f.stage
    BY <2>1, <2>2 DEF Frame
  <2> HIDE DEF new
  <2>8. FrameFine(p, new)
    BY <2>1, <2>4, <2>5, <2>6, <2>7 DEF FrameFine, Flows
  <2>9. /\ Len(to) = Len(st)
        /\ \A j \in 1..Len(st) : to[j] = IF j = Len(st) THEN new ELSE st[j]
    BY <2>1, <2>4, ExceptSeq
  <2>10. Give(st, pts) = to
    BY <1>2 DEF Give, new, f
  <2> HIDE DEF to
  <2>11. ASSUME NEW i \in 1..Len(st) PROVE FrameFine(p, to[i])
    <3>1. CASE i = Len(st)
      BY <2>8, <2>9, <3>1
    <3>2. CASE i # Len(st)
      BY <2>9, <3>2 DEF StackFine
    <3> QED
      BY <3>1, <3>2
  <2>12. ASSUME NEW i \in 1..Len(st), i < Len(st)
         PROVE  Flows(p, to[i], p.ander[to[i + 1].item.at.cur])
    <3>1. i \in Nat /\ i + 1 \in 1..Len(st) /\ i # Len(st)
      BY <2>1, <2>12
    <3>2. to[i] = st[i]
      BY <2>9, <2>12, <3>1
    <3>3. to[i + 1].item = st[i + 1].item
      <4>1. CASE i + 1 = Len(st)
        BY <2>4, <2>9, <3>1, <4>1 DEF f
      <4>2. CASE i + 1 # Len(st)
        BY <2>9, <3>1, <4>2
      <4> QED
        BY <4>1, <4>2
    <3> QED
      BY <2>12, <3>1, <3>2, <3>3 DEF StackFine
  <2> QED
    BY <2>9, <2>10, <2>11, <2>12 DEF StackFine
<1> QED
  BY <1>1, <1>2

LEMMA NewFrameFine ==
  ASSUME NEW d \in Item, KeyFine(d.at), NEW stage \in {"funptr", "new"}, NEW E
  PROVE  FrameFine(prog, NewFrame(d, stage, E)) /\ NewFrame(d, stage, E).item = d
BY DEF NewFrame, FrameFine

(* What a node may collect contains all that its edges bring.              *)
LEMMA EdgeBrings ==
  ASSUME Valid, EdgesFine(prog, edges), NEW g \in edges[engine], ~g.ind,
         prog.kind[g.dst] \in {"copy", "gep"}, NEW k \in Key, k.loc = g.dst, KeyFine(k)
  PROVE  prog.ander[g.src] \subseteq PtsBound(prog, k)
<1>1. engine \in Engine /\ g \in Edge
  BY DEF Valid, TypeOK
<1>2. Holds(prog, g)
  BY <1>1 DEF EdgesFine
<1>3. g.dst \in Var /\ k.cur = g.dst
  BY <1>1, ProgramShape DEF Edge, Node, KeyFine, Valid
<1>4. prog.ander[g.src] \subseteq Obj
  BY <1>1, ProgramParts DEF Edge, Valid
<1> QED
  BY <1>2, <1>3, <1>4 DEF Holds, PtsBound

LEMMA CachedFine ==
  ASSUME Precise, NEW e \in Engine, NEW k
  PROVE  \A c \in CachedPts(e, k) : c.id \in prog.ander[k.cur]
BY DEF Precise, CachedPts

LEMMA FindPTFine ==
  ASSUME Valid, IInv, NEW d \in Item, KeyFine(d.at), NEW vis, NEW st \in Seq(Frame),
         StackFine(prog, st), Expects(prog, st, d.at.cur), FindPT(d, vis, st)
  PROVE  StackFine(prog, stack') /\ RecordFine(recorded')
<1>1. engine \in Engine
  BY DEF Valid, TypeOK
<1>2. RecordFine(recorded')
  BY <1>1 DEF FindPT, Insert, RecordFine, IInv, Valid, TypeOK
<1>3. StackFine(prog, Give(st, CachedPts(engine, d.at)))
  BY <1>1, CachedFine, CachedType, GiveFine DEF IInv, Valid
<1>4. StackFine(prog, Append(st, NewFrame(d, "funptr", {})))
  <2>1. NewFrame(d, "funptr", {}) \in Frame
    BY NewFrameType DEF Valid, Stage
  <2>2. FrameFine(prog, NewFrame(d, "funptr", {})) /\ NewFrame(d, "funptr", {}).item = d
    BY NewFrameFine
  <2> QED
    BY <2>1, <2>2, PushFine
<1> QED
  BY <1>2, <1>3, <1>4 DEF FindPT

LEMMA UpdateFine ==
  ASSUME Valid, IInv, NEW e \in Engine, NEW d \in Item, KeyFine(d.at), NEW pts \in SUBSET CVar,
         \A c \in pts : c.id \in prog.ander[d.at.cur], NEW st \in Seq(Frame),
         StackFine(prog, st), Expects(prog, st, d.at.cur), UpdateCachedPointsTo(e, d, pts, st)
  PROVE  StackFine(prog, stack') /\ EdgesFine(prog, edges') /\ CacheFine(prog, cache')
<1> DEFINE old == CachedPts(e, d.at)
           all == UnionPts(old, pts)
           new == {c \in prog.icalls : /\ c.fp = d.at.cur /\ \E o \in all : o.id = c.target
                                       /\ c.id \notin called[e]}
           connected == UNION {c.edges : c \in new}
<1>1. old \in SUBSET CVar /\ \A c \in old : c.id \in prog.ander[d.at.cur]
  BY CachedFine, CachedType DEF IInv, Valid
<1>2. CASE all = old
  <2>1. StackFine(prog, Give(st, old))
    BY <1>1, GiveFine
  <2>2. stack' = Give(st, old) /\ cache' = cache /\ edges' = edges
    BY <1>2 DEF UpdateCachedPointsTo, graph
  <2> QED
    BY <2>1, <2>2 DEF IInv, Precise, CacheFine
<1>3. CASE all # old
  <2>1. \A c \in all : c.id \in prog.ander[d.at.cur]
    <3>1. all \subseteq old \union pts
      BY UnionPtsSubset
    <3> QED
      BY <1>1, <3>1
  <2>2. /\ cache' = [cache EXCEPT ![e] = @ \union {[at |-> d.at, to |-> c] : c \in all}]
        /\ edges' = [edges EXCEPT ![e] = @ \union connected]
        /\ stack' = Append(st, NewFrame(d, "new", connected \ edges[e]))
    BY <1>3 DEF UpdateCachedPointsTo
  <2>3. \A c \in new : c \in prog.icalls /\ c.fp = d.at.cur /\ c.target \in prog.ander[d.at.cur]
    BY <2>1
  <2> HIDE DEF old, all, new
  <2>4. \A g \in connected : ~g.ind /\ prog.kind[g.dst] \in {"copy", "gep"} => Holds(prog, g)
    BY <2>3, ProgramShape DEF PreAnalysed, Valid
  <2>5. connected \in SUBSET Edge
    BY <2>3, ProgramParts DEF Valid
  <2> HIDE DEF connected
  <2>6. EdgesFine(prog, edges')
    BY <2>2, <2>4 DEF EdgesFine, IInv, Valid, TypeOK
  <2>7. CacheFine(prog, cache')
    BY <2>1, <2>2 DEF CacheFine, IInv, Precise, Valid, TypeOK
  <2>8. NewFrame(d, "new", connected \ edges[e]) \in Frame
    BY <2>5, NewFrameType DEF Valid, Stage
  <2>9. StackFine(prog, stack')
    BY <2>2, <2>8, NewFrameFine, PushFine
  <2> QED
    BY <2>6, <2>7, <2>9
<1> QED
  BY <1>2, <1>3

LEMMA ComputeFine ==
  ASSUME Valid, IInv, NEW e \in Engine, NEW v \in Var, ComputeDDAPts(e, v)
  PROVE  StackFine(prog, stack') /\ RecordFine(recorded') /\ LoadVarFine(loadVar')
<1> DEFINE root == ItemOf(v, <<>>, TRUE)
<1>1. root \in Item /\ KeyFine(root.at)
  BY ItemOfType, EmptyCxt DEF ItemOf, KeyFine
<1>2. stack' = <<>> \/ stack' = <<NewFrame(root, "funptr", {})>>
  BY DEF ComputeDDAPts
<1>3. recorded'[e] \subseteq {root} /\ \A x \in Engine : x # e => recorded'[x] = recorded[x]
  BY DEF ComputeDDAPts, Met, Valid, TypeOK
<1>4. LoadVarFine(loadVar')
  BY DEF ComputeDDAPts, LoadVarFine, IInv, Valid, TypeOK
<1>5. FrameFine(prog, NewFrame(root, "funptr", {}))
  BY <1>1, NewFrameFine
<1> HIDE DEF root
<1>6. RecordFine(recorded')
  BY <1>1, <1>3 DEF RecordFine, IInv
<1>7. StackFine(prog, <<>>) /\ \A f : FrameFine(prog, f) => StackFine(prog, <<f>>)
  BY DEF StackFine
<1> QED
  BY <1>2, <1>4, <1>5, <1>6, <1>7

-----------------------------------------------------------------------------
(* The invariant, action by action.                                        *)

LEMMA InitFine ==
  ASSUME Init, Valid
  PROVE  IInv
<1>1. EdgesFine(prog, edges)
  BY ProgramShape, ProgramParts DEF Init, EdgesFine, PreAnalysed, Valid
<1>2. StackFine(prog, stack)
  BY DEF Init, StackFine
<1>3. Precise /\ RecordFine(recorded) /\ LoadVarFine(loadVar)
  BY DEF Init, Precise, RecordFine, LoadVarFine
<1> QED
  BY <1>1, <1>2, <1>3 DEF IInv

LEMMA StartQueryFine ==
  ASSUME Valid, IInv, NEW v \in queries, StartQuery(v)
  PROVE  IInv'
<1>1. v \in Var /\ prog.engine \in Engine
  BY ProgramParts DEF Valid, TypeOK
<1>2. StackFine(prog, stack') /\ RecordFine(recorded') /\ LoadVarFine(loadVar')
  BY <1>1, ComputeFine DEF StartQuery
<1> QED
  BY <1>2 DEF StartQuery, IInv, Precise, graph

(* Steps that change nothing but the stack and what is looked for.         *)
LEMMA OnlyTopFine ==
  ASSUME IInv, UNCHANGED onlyTop, StackFine(prog, stack'), LoadVarFine(loadVar')
  PROVE  IInv'
BY DEF IInv, Precise, onlyTop, inQuery, graph

(* What is looked for is named by its item.                                *)
LEMMA PutFine ==
  ASSUME Valid, IInv, NEW k, NEW c, k.cur = c.id,
         loadVar' = [loadVar EXCEPT ![engine] = Put(@, k, c)]
  PROVE  LoadVarFine(loadVar')
BY DEF Put, LoadVarFine, IInv, Valid, TypeOK

LEMMA ResolveFunPtrFine ==
  ASSUME Valid, IInv, NEW v \in Var, ResolveFunPtr(v)
  PROVE  IInv'
<1> DEFINE f == [top EXCEPT !.funs = @ \ {v}]
           d == ItemOf(v, top.item.at.cxt, top.item.conc)
<1>1. TypeOK /\ stack # <<>> /\ StackFine(prog, stack) /\ top.stage = "funptr"
  BY DEF ResolveFunPtr, Running, Valid, IInv
<1>2. top \in Frame /\ FrameFine(prog, top)
  BY <1>1, TopFine
<1>3. d \in Item /\ KeyFine(d.at)
  BY <1>2, ItemParts, ItemOfType DEF ItemOf, KeyFine
<1>4. f \in Frame /\ FrameFine(prog, f) /\ f.item = top.item /\ f.into = "none"
  BY <1>1, <1>2 DEF Frame, FrameFine, Flows
<1>5. FindPT(d, visited[engine], Replace(f))
  BY DEF ResolveFunPtr
<1> HIDE DEF f, d
<1>6. StackFine(prog, Replace(f)) /\ Replace(f) \in Seq(Frame)
  BY <1>1, <1>4, ReplaceFine
<1>7. Expects(prog, Replace(f), d.at.cur)
  BY <1>1, <1>4, ReplaceExpects DEF Flows
<1>8. StackFine(prog, stack') /\ RecordFine(recorded')
  BY <1>3, <1>5, <1>6, <1>7, FindPTFine
<1> QED
  BY <1>8 DEF ResolveFunPtr, IInv, Precise, inQuery, graph

LEMMA BeginStatementFine ==
  ASSUME Valid, IInv, BeginStatement
  PROVE  IInv'
<1> DEFINE k == top.item.at
           n == k.loc
           kind == prog.kind[n]
<1>1. TypeOK /\ stack # <<>> /\ StackFine(prog, stack) /\ top.stage = "funptr"
  BY DEF BeginStatement, Running, Valid, IInv
<1>2. top \in Frame /\ FrameFine(prog, top) /\ KeyFine(k) /\ top.into = "none"
  BY <1>1, TopFine DEF FrameFine
<1>3. k \in Key /\ n \in Node
  BY <1>2, ItemParts
<1>4. \A v : /\ DirectVF(engine, k) \in SUBSET Visit /\ OperandVF(engine, k, v) \in SUBSET Visit
            /\ IndirectVF(engine, k) \in SUBSET Visit
  BY <1>3, VisitTypes
<1>5. kind \in {"addr", "copy", "gep", "load", "store", "mr"}
  BY <1>3, ProgramParts DEF Valid
<1> DEFINE Good(f) == f \in Frame /\ FrameFine(prog, f) /\ f.item = top.item
<1>6. ASSUME kind = "addr"
      PROVE  Good([top EXCEPT !.stage = "stmt",
                     !.pts = {[id |-> prog.obj[n], cxt |-> k.cxt, conc |-> top.item.conc]}])
  <2>1. n \in Var /\ k.cur = n /\ prog.obj[n] \in Obj
    BY <1>2, <1>3, <1>6, ProgramShape DEF Node, KeyFine, Valid
  <2>2. prog.obj[n] \in PtsBound(prog, k)
    BY <1>6, <2>1, ProgramShape DEF PreAnalysed, PtsBound, Valid
  <2> DEFINE S == {[id |-> prog.obj[n], cxt |-> k.cxt, conc |-> top.item.conc]}
  <2>3. S \in SUBSET CVar /\ \A c \in S : c.id \in PtsBound(prog, k)
    BY <1>2, <2>1, <2>2, ItemParts DEF CVar
  <2> HIDE DEF S
  <2>4. [top EXCEPT !.stage = "stmt", !.pts = S] \in Frame
    BY <1>2, <2>3 DEF Frame, Stage
  <2>5. FrameFine(prog, [top EXCEPT !.stage = "stmt", !.pts = S])
    BY <1>2, <2>3 DEF Frame, FrameFine, Flows
  <2> QED
    BY <1>2, <2>4, <2>5 DEF S, Frame
<1>7. ASSUME NEW V \in SUBSET Visit, \A x \in V : Yields(prog, x) \subseteq PtsBound(prog, k)
      PROVE  Good([top EXCEPT !.stage = "stmt", !.into = "pts", !.visits = V])
  BY <1>2, <1>7 DEF Frame, Stage, FrameFine, Flows
<1>8. ASSUME NEW V \in SUBSET Visit, \A x \in V : Yields(prog, x) \subseteq BaseBound(prog, k)
      PROVE  Good([top EXCEPT !.stage = "base", !.into = "base", !.visits = V])
  BY <1>2, <1>8 DEF Frame, Stage, FrameFine, Flows
<1>9. ASSUME kind \in {"copy", "gep"}, NEW x \in DirectVF(engine, k)
      PROVE  Yields(prog, x) \subseteq PtsBound(prog, k)
  BY <1>2, <1>3, <1>9, EdgeBrings DEF DirectVF, Yields, IInv
<1>10. ASSUME kind = "mr", NEW x \in IndirectVF(engine, k)
       PROVE  Yields(prog, x) \subseteq PtsBound(prog, k)
  BY <1>10 DEF IndirectVF, Yields, PtsBound
<1>11. ASSUME kind = "load", NEW x \in OperandVF(engine, k, prog.src[n])
       PROVE  Yields(prog, x) \subseteq BaseBound(prog, k)
  BY <1>11 DEF OperandVF, DirectVF, Yields, BaseBound
<1>12. ASSUME kind = "store", NEW x \in OperandVF(engine, k, prog.dst[n])
       PROVE  Yields(prog, x) \subseteq BaseBound(prog, k)
  BY <1>12 DEF OperandVF, DirectVF, Yields, BaseBound
<1> HIDE DEF k, n, kind, Good
<1>13. PICK f : Good(f) /\ stack' = Replace(f)
  <2>1. CASE kind = "addr"
    BY <1>6, <2>1 DEF BeginStatement, k, n, kind
  <2>2. CASE kind \in {"copy", "gep"}
    <3>1. Good([top EXCEPT !.stage = "stmt", !.into = "pts", !.visits = DirectVF(engine, k)])
      BY <1>4, <1>7, <1>9, <2>2
    <3> QED
      BY <2>2, <3>1 DEF BeginStatement, k, n, kind
  <2>3. CASE kind = "mr"
    <3>1. Good([top EXCEPT !.stage = "stmt", !.into = "pts", !.visits = IndirectVF(engine, k)])
      BY <1>4, <1>7, <1>10, <2>3
    <3> QED
      BY <2>3, <3>1 DEF BeginStatement, k, n, kind
  <2>4. CASE kind = "load"
    <3>1. Good([top EXCEPT !.stage = "base", !.into = "base",
                           !.visits = OperandVF(engine, k, prog.src[n])])
      BY <1>4, <1>8, <1>11, <2>4
    <3> QED
      BY <2>4, <3>1 DEF BeginStatement, k, n, kind
  <2>5. CASE kind = "store"
    <3>1. Good([top EXCEPT !.stage = "base", !.into = "base",
                           !.visits = OperandVF(engine, k, prog.dst[n])])
      BY <1>4, <1>8, <1>12, <2>5
    <3> QED
      BY <2>5, <3>1 DEF BeginStatement, k, n, kind
  <2> QED
    BY <1>5, <2>1, <2>2, <2>3, <2>4, <2>5
<1>14. StackFine(prog, stack')
  BY <1>1, <1>13, ReplaceFine DEF Good
<1> QED
  BY <1>14, OnlyTopFine DEF BeginStatement, IInv

LEMMA BackwardPropDpmFine ==
  ASSUME Valid, IInv, stack # <<>>, NEW x \in top.visits, BackwardPropDpm(x)
  PROVE  IInv'
<1> DEFINE g == x.edge
           s == top.item.at.cxt
           d == [at |-> [loc |-> g.src, cur |-> IF g.ind THEN x.from.cur ELSE g.src,
                         cxt |-> Context(Now, s, g)],
                 conc |-> Concrete(Now, s, top.item.conc, g)]
           f == [top EXCEPT !.visits = @ \ {x}]
           rest == Replace(f)
<1>1. TypeOK /\ StackFine(prog, stack)
  BY DEF Valid, IInv
<1>2. top \in Frame /\ FrameFine(prog, top)
  BY <1>1, TopFine
<1>3. d \in Item /\ d.at.cur = IF g.ind THEN x.from.cur ELSE g.src
  BY <1>2, SourceType
<1>4. g \in Edge
  BY <1>2 DEF Frame, Visit
<1>5. KeyFine(d.at)
  BY <1>4, NamesAssumption DEF KeyFine, Edge
<1>6. f \in Frame /\ FrameFine(prog, f) /\ f.item = top.item /\ f.into = top.into
  BY <1>2 DEF Frame, FrameFine, Flows
<1>7. Flows(prog, f, prog.ander[d.at.cur])
  BY <1>2, <1>3, <1>6 DEF FrameFine, Yields, Flows
<1> HIDE DEF d, f, g, s
<1>8. StackFine(prog, rest) /\ rest \in Seq(Frame)
  BY <1>1, <1>6, ReplaceFine
<1>9. Expects(prog, rest, d.at.cur)
  BY <1>1, <1>6, <1>7, ReplaceExpects
<1>10. UNCHANGED <<inQuery, cache, graph>>
  BY DEF BackwardPropDpm
<1>11. CASE /\ \/ ~g.ind /\ UNCHANGED loadVar
               \/ /\ g.ind
                  /\ \E m \in loadVar[engine] :
                       /\ m.at = x.from
                       /\ loadVar' = [loadVar EXCEPT ![engine] = Put(@, d.at, m.var)]
            /\ FindPT(d, visited[engine], rest)
  <2>1. StackFine(prog, stack') /\ RecordFine(recorded')
    BY <1>3, <1>5, <1>8, <1>9, <1>11, FindPTFine
  <2>2. LoadVarFine(loadVar')
    <3>1. CASE UNCHANGED loadVar
      BY <3>1 DEF IInv
    <3>2. CASE g.ind /\ ~UNCHANGED loadVar
      <4>1. PICK m \in loadVar[engine] :
              m.at = x.from /\ loadVar' = [loadVar EXCEPT ![engine] = Put(@, d.at, m.var)]
        BY <1>11, <3>2
      <4>2. m.var.id = d.at.cur
        BY <1>3, <3>2, <4>1 DEF IInv, LoadVarFine, Valid, TypeOK
      <4> QED
        BY <4>1, <4>2, PutFine
    <3> QED
      BY <1>11, <3>1, <3>2
  <2> QED
    BY <1>10, <2>1, <2>2 DEF IInv, Precise, inQuery, graph
<1>12. CASE /\ stack' = rest
            /\ UNCHANGED <<visited, recorded, loadVar, steps>>
  BY <1>8, <1>10, <1>12 DEF IInv, Precise, inQuery, graph
<1> QED
  BY <1>11, <1>12 DEF BackwardPropDpm, d, f, g, s

LEMMA BaseDoneFine ==
  ASSUME Valid, IInv, BaseDone
  PROVE  IInv'
<1> DEFINE f == [top EXCEPT !.stage = "stmt", !.into = "pts", !.objs = top.base]
<1>1. TypeOK /\ stack # <<>> /\ StackFine(prog, stack) /\ top.visits = {}
  BY DEF BaseDone, Idle, Running, Valid, IInv
<1>2. top \in Frame /\ FrameFine(prog, top)
  BY <1>1, TopFine
<1>3. f \in Frame /\ FrameFine(prog, f) /\ f.item = top.item
  BY <1>1, <1>2 DEF Frame, Stage, FrameFine
<1>4. StackFine(prog, stack')
  BY <1>1, <1>3, ReplaceFine DEF BaseDone
<1> QED
  BY <1>4, OnlyTopFine DEF BaseDone, IInv

(* Visits that may bring what the item itself asks for, or less.           *)
LEMMA VisitsFine ==
  ASSUME NEW f \in Frame, FrameFine(prog, f), f.stage = "stmt",
         NEW V \in SUBSET Visit, \A x \in V : Yields(prog, x) \subseteq PtsBound(prog, f.item.at)
  PROVE  /\ [f EXCEPT !.visits = V] \in Frame /\ FrameFine(prog, [f EXCEPT !.visits = V])
         /\ [f EXCEPT !.visits = V].item = f.item
BY DEF Frame, FrameFine, Flows

LEMMA LoadObjectFine ==
  ASSUME Valid, IInv, stack # <<>>, NEW c \in top.objs, LoadObject(c)
  PROVE  IInv'
<1> DEFINE k == ObjKey(top.item.at, c)
           n == top.item.at.loc
           f == [Rest(c) EXCEPT !.visits = IndirectVF(engine, k)]
<1>1. TypeOK /\ StackFine(prog, stack) /\ top.stage = "stmt" /\ prog.kind[n] = "load"
  BY DEF LoadObject, Idle, Running, Valid, IInv
<1>2. top \in Frame /\ FrameFine(prog, top) /\ top.item.at \in Key
  BY <1>1, TopFine, ItemParts
<1>3. c.id \in Obj /\ c.id \in prog.ander[prog.src[n]]
  BY <1>1, <1>2 DEF Frame, CVar, FrameFine, BaseBound
<1>4. k \in Key /\ k.cur = c.id
  BY <1>2, <1>3 DEF ObjKey, Key
<1>5. prog.ander[c.id] \subseteq PtsBound(prog, top.item.at)
  <2>1. n \in Var /\ top.item.at.cur = n
    BY <1>1, <1>2, ProgramShape DEF Key, Node, FrameFine, KeyFine, Valid
  <2>2. prog.ander[c.id] \subseteq prog.ander[n]
    BY <1>1, <1>3, <2>1, ProgramShape DEF PreAnalysed, Valid
  <2> QED
    BY <1>1, <2>1, <2>2 DEF PtsBound
<1>6. Rest(c) \in Frame /\ FrameFine(prog, Rest(c)) /\ Rest(c).item = top.item
      /\ Rest(c).stage = "stmt"
  BY <1>1, <1>2 DEF Rest, Frame, FrameFine, Flows
<1>7. /\ IndirectVF(engine, k) \in SUBSET Visit
      /\ \A x \in IndirectVF(engine, k) : Yields(prog, x) = prog.ander[c.id]
  BY <1>4, VisitTypes DEF IndirectVF, Yields
<1>8. f \in Frame /\ FrameFine(prog, f) /\ f.item = top.item
  BY <1>5, <1>6, <1>7, VisitsFine
<1> HIDE DEF f, k
<1>9. StackFine(prog, stack')
  BY <1>1, <1>8, ReplaceFine DEF LoadObject, f, k
<1>10. LoadVarFine(loadVar')
  BY <1>4, PutFine DEF LoadObject, LookFor, k
<1> QED
  BY <1>9, <1>10, OnlyTopFine DEF LoadObject

LEMMA OwnVisits ==
  ASSUME Valid, NEW k \in Key, prog.kind[k.loc] # "gep"
  PROVE  /\ IndirectVF(engine, k) \in SUBSET Visit
         /\ \A x \in IndirectVF(engine, k) : Yields(prog, x) \subseteq PtsBound(prog, k)
<1>1. \A x \in IndirectVF(engine, k) : Yields(prog, x) = prog.ander[k.cur]
  BY DEF IndirectVF, Yields
<1> QED
  BY <1>1, VisitTypes DEF PtsBound

LEMMA StoreObjectFine ==
  ASSUME Valid, IInv, stack # <<>>, NEW c \in top.objs, StoreObject(c)
  PROVE  IInv'
<1> DEFINE k == top.item.at
           r == [Rest(c) EXCEPT !.weak = c]
           V == OperandVF(engine, k, prog.src[k.loc])
<1>1. TypeOK /\ StackFine(prog, stack) /\ top.stage = "stmt" /\ prog.kind[k.loc] = "store"
  BY DEF StoreObject, Idle, Running, Valid, IInv
<1>2. top \in Frame /\ FrameFine(prog, top) /\ k \in Key /\ k.loc \in Node
  BY <1>1, TopFine, ItemParts
<1>3. c \in CVar /\ c.id \in Obj /\ c.id \in prog.ander[prog.dst[k.loc]]
  BY <1>1, <1>2 DEF Frame, CVar, FrameFine, BaseBound
<1>4. Rest(c) \in Frame /\ FrameFine(prog, Rest(c)) /\ Rest(c).item = top.item
      /\ Rest(c).stage = "stmt"
  BY <1>1, <1>2 DEF Rest, Frame, FrameFine, Flows
<1>5. PICK m \in loadVar[engine] :
        /\ m.at = k
        /\ \/ /\ SameVar(Now, c, m.var)
              /\ LookFor(k, c)
              /\ stack' = Replace([Rest(c) EXCEPT !.weak = c, !.visits = V])
           \/ /\ stack' = Replace([Rest(c) EXCEPT !.visits = IndirectVF(engine, k)])
              /\ UNCHANGED loadVar
  BY DEF StoreObject
<1>6. m.var.id = k.cur
  BY <1>5 DEF IInv, LoadVarFine, Valid, TypeOK
<1>7. CASE /\ SameVar(Now, c, m.var)
           /\ LookFor(k, c)
           /\ stack' = Replace([Rest(c) EXCEPT !.weak = c, !.visits = V])
  <2>1. c.id = k.cur
    BY <1>6, <1>7 DEF SameVar
  <2>2. r \in Frame /\ FrameFine(prog, r) /\ r.item = top.item /\ r.stage = "stmt"
    BY <1>1, <1>3, <1>4, <2>1 DEF Frame, FrameFine, Flows
  <2>3. prog.ander[prog.src[k.loc]] \subseteq prog.ander[k.cur]
    <3>1. k.loc \in Mem
      BY <1>1, <1>2, ProgramShape DEF Valid
    <3> QED
      BY <1>1, <1>3, <2>1, <3>1, ProgramShape DEF PreAnalysed, Valid
  <2>4. V \in SUBSET Visit /\ \A x \in V : Yields(prog, x) \subseteq PtsBound(prog, k)
    <3>1. V \in SUBSET Visit
      BY <1>2, VisitTypes
    <3> QED
      BY <1>1, <2>3, <3>1 DEF OperandVF, DirectVF, Yields, PtsBound
  <2>5. [r EXCEPT !.visits = V] = [Rest(c) EXCEPT !.weak = c, !.visits = V]
    OBVIOUS
  <2> HIDE DEF r, V
  <2>6. [r EXCEPT !.visits = V] \in Frame /\ FrameFine(prog, [r EXCEPT !.visits = V])
        /\ [r EXCEPT !.visits = V].item = top.item
    BY <2>2, <2>4, VisitsFine
  <2>7. StackFine(prog, stack')
    BY <1>1, <1>7, <2>5, <2>6, ReplaceFine
  <2>8. LoadVarFine(loadVar')
    BY <1>7, <2>1, PutFine DEF LookFor
  <2> QED
    BY <2>7, <2>8, OnlyTopFine DEF StoreObject
<1>8. CASE /\ stack' = Replace([Rest(c) EXCEPT !.visits = IndirectVF(engine, k)])
           /\ UNCHANGED loadVar
  <2> DEFINE f == [Rest(c) EXCEPT !.visits = IndirectVF(engine, k)]
  <2>1. f \in Frame /\ FrameFine(prog, f) /\ f.item = top.item
    BY <1>1, <1>2, <1>4, OwnVisits, VisitsFine
  <2>2. StackFine(prog, stack')
    BY <1>1, <1>8, <2>1, ReplaceFine
  <2> QED
    BY <1>8, <2>2, OnlyTopFine DEF StoreObject, IInv
<1> QED
  BY <1>5, <1>7, <1>8

LEMMA OldValuesFine ==
  ASSUME Valid, IInv, OldValues
  PROVE  IInv'
<1> DEFINE k == top.item.at
           r == [top EXCEPT !.weak = None]
           f == [r EXCEPT !.visits = IndirectVF(engine, k)]
<1>1. TypeOK /\ stack # <<>> /\ StackFine(prog, stack) /\ top.stage = "stmt" /\ top.weak # None
  BY DEF OldValues, Idle, Running, Valid, IInv
<1>2. top \in Frame /\ FrameFine(prog, top) /\ k \in Key /\ k.loc \in Node
  BY <1>1, TopFine, ItemParts
<1>3. r \in Frame /\ FrameFine(prog, r) /\ r.item = top.item /\ r.stage = "stmt"
  BY <1>1, <1>2 DEF Frame, FrameFine, Flows
<1>4. CASE stack' = Replace(r) /\ UNCHANGED loadVar
  <2>1. StackFine(prog, stack')
    BY <1>1, <1>3, <1>4, ReplaceFine
  <2> QED
    BY <1>4, <2>1, OnlyTopFine DEF OldValues, IInv
<1>5. CASE stack' = Replace(f) /\ LookFor(k, top.weak)
  <2>1. top.weak.id = k.cur /\ prog.kind[k.loc] = "store"
    BY <1>1, <1>2 DEF FrameFine
  <2>2. f \in Frame /\ FrameFine(prog, f) /\ f.item = top.item
    <3>1. /\ IndirectVF(engine, k) \in SUBSET Visit
          /\ \A x \in IndirectVF(engine, k) : Yields(prog, x) \subseteq PtsBound(prog, r.item.at)
      BY <1>2, <1>3, <2>1, OwnVisits
    <3> QED
      BY <1>3, <3>1, VisitsFine
  <2>3. StackFine(prog, stack')
    BY <1>1, <1>5, <2>2, ReplaceFine
  <2>4. LoadVarFine(loadVar')
    BY <1>5, <2>1, PutFine DEF LookFor
  <2> QED
    BY <2>3, <2>4, OnlyTopFine DEF OldValues
<1>6. \/ stack' = Replace(r) /\ UNCHANGED loadVar
      \/ stack' = Replace(f) /\ LookFor(k, top.weak)
  BY DEF OldValues
<1> QED
  BY <1>4, <1>5, <1>6

LEMMA EndStatementFine ==
  ASSUME Valid, IInv, EndStatement
  PROVE  IInv'
<1> DEFINE k == top.item.at
           pts == IF prog.kind[k.loc] = "gep" THEN GepPts(prog, k.loc, top.pts) ELSE top.pts
<1>1. TypeOK /\ stack # <<>> /\ StackFine(prog, stack) /\ engine \in Engine
  BY DEF EndStatement, Idle, Running, Valid, TypeOK, IInv
<1>2. top \in Frame /\ FrameFine(prog, top) /\ top.item \in Item /\ k \in Key /\ k.loc \in Node
      /\ Below \in Seq(Frame) /\ StackFine(prog, Below) /\ Expects(prog, Below, k.cur)
  BY <1>1, TopFine, ItemParts
<1>3. pts \in SUBSET CVar
  BY <1>2, StatementPts
<1>4. \A c \in pts : c.id \in prog.ander[k.cur]
  <2>1. CASE prog.kind[k.loc] = "gep"
    <3>1. k.loc \in Var /\ top.pts \in SUBSET CVar
      BY <1>2, <2>1, ProgramShape DEF Node, Frame, Valid
    <3>2. \A d \in GepPts(prog, k.loc, top.pts) :
            \E c \in top.pts : d.id = prog.field[k.loc][c.id]
      BY <3>1, GepPtsFrom DEF Valid
    <3>3. \A c \in top.pts : prog.field[k.loc][c.id] \in prog.ander[k.cur]
      BY <1>2, <2>1 DEF FrameFine, PtsBound
    <3> QED
      BY <2>1, <3>2, <3>3
  <2>2. CASE prog.kind[k.loc] # "gep"
    BY <1>2, <2>2 DEF FrameFine, PtsBound
  <2> QED
    BY <2>1, <2>2
<1>5. UpdateCachedPointsTo(engine, top.item, pts, Below) /\ KeyFine(k)
  BY <1>2 DEF EndStatement, FrameFine
<1> HIDE DEF pts
<1>6. StackFine(prog, stack') /\ EdgesFine(prog, edges') /\ CacheFine(prog, cache')
  BY <1>1, <1>2, <1>3, <1>4, <1>5, UpdateFine
<1> QED
  BY <1>6 DEF EndStatement, IInv, Precise, CacheFine, inQuery

LEMMA NextEdgeFine ==
  ASSUME Valid, IInv, stack # <<>>, NEW g \in top.edges, NextEdge(g)
  PROVE  IInv'
<1> DEFINE I == Affected(engine, top.item.at, g, top.stage = "new")
           f == [top EXCEPT !.edges = @ \ {g}, !.items = I]
<1>1. TypeOK /\ StackFine(prog, stack) /\ engine \in Engine
  BY DEF Valid, TypeOK, IInv
<1>2. top \in Frame /\ FrameFine(prog, top)
  BY <1>1, TopFine
<1>3. I \in SUBSET Item /\ \A i \in I : KeyFine(i.at)
  BY <1>1 DEF Affected, IInv, RecordFine, Valid, TypeOK
<1> HIDE DEF I
<1>4. f \in Frame /\ FrameFine(prog, f) /\ f.item = top.item
  BY <1>2, <1>3 DEF Frame, FrameFine, Flows
<1>5. StackFine(prog, stack')
  BY <1>1, <1>4, ReplaceFine DEF NextEdge, I
<1> QED
  BY <1>5, OnlyTopFine DEF NextEdge, IInv

LEMMA ReComputeFine ==
  ASSUME Valid, IInv, stack # <<>>, NEW d \in top.items, ReCompute(d)
  PROVE  IInv'
<1> DEFINE f == [top EXCEPT !.items = @ \ {d}]
<1>1. TypeOK /\ StackFine(prog, stack) /\ top.stage \in {"new", "out"}
  BY DEF ReCompute, Recomputing, Running, Valid, IInv
<1>2. top \in Frame /\ FrameFine(prog, top)
  BY <1>1, TopFine
<1>3. d \in Item /\ KeyFine(d.at)
  BY <1>2 DEF Frame, FrameFine
<1>4. f \in Frame /\ FrameFine(prog, f) /\ f.item = top.item /\ f.into = "none"
  BY <1>1, <1>2 DEF Frame, FrameFine, Flows
<1>5. FindPT(d, visited[engine] \ {d.at}, Replace(f))
  BY DEF ReCompute
<1> HIDE DEF f
<1>6. StackFine(prog, Replace(f)) /\ Replace(f) \in Seq(Frame)
  BY <1>1, <1>4, ReplaceFine
<1>7. Expects(prog, Replace(f), d.at.cur)
  BY <1>1, <1>4, ReplaceExpects DEF Flows
<1>8. StackFine(prog, stack') /\ RecordFine(recorded')
  BY <1>3, <1>5, <1>6, <1>7, FindPTFine
<1> QED
  BY <1>8 DEF ReCompute, IInv, Precise, inQuery, graph

LEMMA OutEdgesFine ==
  ASSUME Valid, IInv, OutEdges
  PROVE  IInv'
<1> DEFINE E == {g \in edges[engine] : g.src = top.item.at.loc}
           f == [top EXCEPT !.stage = "out", !.edges = E]
<1>1. TypeOK /\ stack # <<>> /\ StackFine(prog, stack) /\ top.stage = "new"
  BY DEF OutEdges, Running, Valid, IInv
<1>2. top \in Frame /\ FrameFine(prog, top)
  BY <1>1, TopFine
<1>3. E \in SUBSET Edge
  BY DEF Valid, TypeOK
<1> HIDE DEF E
<1>4. f \in Frame /\ FrameFine(prog, f) /\ f.item = top.item
  BY <1>1, <1>2, <1>3 DEF Frame, Stage, FrameFine, Flows
<1>5. StackFine(prog, stack')
  BY <1>1, <1>4, ReplaceFine DEF OutEdges, E
<1> QED
  BY <1>5, OnlyTopFine DEF OutEdges, IInv

LEMMA ReturnFine ==
  ASSUME Valid, IInv, Return
  PROVE  IInv'
<1>1. TypeOK /\ stack # <<>> /\ StackFine(prog, stack) /\ engine \in Engine
  BY DEF Return, Running, Valid, TypeOK, IInv
<1>2. Below \in Seq(Frame) /\ StackFine(prog, Below) /\ Expects(prog, Below, top.item.at.cur)
  BY <1>1, TopFine
<1>3. StackFine(prog, Give(Below, CachedPts(engine, top.item.at)))
  BY <1>1, <1>2, CachedFine, CachedType, GiveFine DEF IInv
<1>4. StackFine(prog, stack')
  BY <1>3 DEF Return
<1> QED
  BY <1>4, OnlyTopFine DEF Return, IInv

LEMMA RootFine ==
  ASSUME Valid, pc # "answered"
  PROVE  Root \in Item /\ Root.at.cur = query /\ KeyFine(Root.at)
BY RootType DEF Root, ItemOf, KeyFine

LEMMA FlowPtsFine ==
  ASSUME Valid, IInv, pc # "answered"
  PROVE  FlowPts \in SUBSET CVar /\ \A c \in FlowPts : c.id \in prog.ander[query]
<1>1. \A c \in CachedPts("flow", Root.at) : c.id \in prog.ander[query]
  BY RootFine, CachedFine DEF Engine, IInv
<1> QED
  BY <1>1, FlowPtsType

LEMMA AnswersFine ==
  ASSUME Valid, IInv, pc # "answered", NEW pts, \A c \in pts : c.id \in prog.ander[query],
         Answers(pts), UNCHANGED <<prog, cache>>
  PROVE  Precise'
<1>1. \A m \in {[at |-> Root.at, to |-> c] : c \in pts} : m.to.id \in prog.ander[m.at.cur]
  BY RootFine
<1> QED
  BY <1>1 DEF Answers, IInv, Precise

LEMMA AnswerInBudgetFine ==
  ASSUME Valid, IInv, AnswerInBudget
  PROVE  IInv'
<1>1. pc # "answered" /\ UNCHANGED <<prog, cache>>
  BY DEF AnswerInBudget
<1>2. \A c \in CachedPts("cxt", Root.at) : c.id \in prog.ander[query]
  BY <1>1, RootFine, CachedFine DEF Engine, IInv
<1>3. Precise'
  <2>1. CASE engine = "cxt"
    BY <1>1, <1>2, <2>1, AnswersFine DEF AnswerInBudget
  <2>2. CASE engine # "cxt"
    BY <1>1, <2>2 DEF AnswerInBudget, IInv, Precise
  <2> QED
    BY <2>1, <2>2
<1> QED
  BY <1>3 DEF AnswerInBudget, IInv, graph

LEMMA DowngradeFine ==
  ASSUME Valid, IInv, Downgrade
  PROVE  IInv'
<1>1. query \in Var /\ "flow" \in Engine
  BY DEF Downgrade, Valid, TypeOK, Engine
<1>2. StackFine(prog, stack') /\ RecordFine(recorded') /\ LoadVarFine(loadVar')
  BY <1>1, ComputeFine DEF Downgrade
<1> QED
  BY <1>2 DEF Downgrade, IInv, Precise, graph

(* The empty stack.                                                        *)
LEMMA EmptyFine ==
  ASSUME NEW v
  PROVE  <<>> \in Seq(Frame) /\ StackFine(prog, <<>>) /\ Expects(prog, <<>>, v)
BY EmptySeq DEF StackFine, Expects

LEMMA DegradeFlowFine ==
  ASSUME Valid, IInv, DegradeFlow
  PROVE  IInv'
<1>1. Root \in Item /\ Root.at.cur = query /\ KeyFine(Root.at) /\ query \in Var /\ "flow" \in Engine
  BY RootFine, RootType DEF DegradeFlow, Engine
<1>2. /\ Conservative(prog.ander[query]) \in SUBSET CVar
      /\ \A c \in Conservative(prog.ander[query]) : c.id \in prog.ander[query]
  BY <1>1, ProgramParts, ConservativeType DEF Valid
<1>3. StackFine(prog, stack') /\ EdgesFine(prog, edges') /\ CacheFine(prog, cache')
  BY <1>1, <1>2, EmptyFine, UpdateFine DEF DegradeFlow
<1> QED
  BY <1>3 DEF DegradeFlow, IInv, Precise, CacheFine

LEMMA DegradeContextFine ==
  ASSUME Valid, IInv, DegradeContext
  PROVE  IInv'
<1>1. pc # "answered"
  BY DEF DegradeContext
<1>2. Root \in Item /\ Root.at.cur = query /\ KeyFine(Root.at) /\ "cxt" \in Engine
  BY <1>1, RootFine DEF Engine
<1>3. FlowPts \in SUBSET CVar /\ \A c \in FlowPts : c.id \in prog.ander[query]
  BY <1>1, FlowPtsFine
<1>4. StackFine(prog, stack') /\ EdgesFine(prog, edges') /\ CacheFine(prog, cache')
  BY <1>2, <1>3, EmptyFine, UpdateFine DEF DegradeContext
<1> QED
  BY <1>4 DEF DegradeContext, IInv, Precise, CacheFine

LEMMA AnswerDegradedFine ==
  ASSUME Valid, IInv, AnswerDegraded
  PROVE  IInv'
<1>1. pc # "answered" /\ UNCHANGED <<prog, cache>>
  BY DEF AnswerDegraded
<1>2. Precise'
  <2>1. CASE engine = "cxt"
    BY <1>1, <2>1, FlowPtsFine, AnswersFine DEF AnswerDegraded
  <2>2. CASE engine # "cxt"
    BY <1>1, <2>2 DEF AnswerDegraded, IInv, Precise
  <2> QED
    BY <2>1, <2>2
<1> QED
  BY <1>2 DEF AnswerDegraded, IInv, graph

LEMMA NextFine ==
  ASSUME Valid, IInv, [Next]_vars
  PROVE  IInv'
<1>1. CASE \E v \in queries : StartQuery(v)
  BY <1>1, StartQueryFine
<1>2. CASE Statement
  BY <1>2, ResolveFunPtrFine, BeginStatementFine, BackwardPropDpmFine, BaseDoneFine,
     LoadObjectFine, StoreObjectFine, OldValuesFine, EndStatementFine DEF Statement
<1>3. CASE Recomputation
  BY <1>3, NextEdgeFine, ReComputeFine, OutEdgesFine, ReturnFine DEF Recomputation
<1>4. CASE EndOfQuery
  BY <1>4, AnswerInBudgetFine, DowngradeFine, DegradeFlowFine, DegradeContextFine,
     AnswerDegradedFine DEF EndOfQuery
<1>5. CASE UNCHANGED vars
  BY <1>5 DEF vars, graph, IInv, Precise
<1> QED
  BY <1>1, <1>2, <1>3, <1>4, <1>5 DEF Next, Terminated

(* In every program the demand-driven analysis answers with no pointee     *)
(* that the pre-analysis rules out, whatever it has cached for an earlier  *)
(* query, whichever calls it has connected and wherever a query gave up.   *)
THEOREM StaysPrecise == Spec => []Precise
<1>1. Init => Valid /\ IInv
  BY InitType, InitFine
<1>2. Valid /\ IInv /\ [Next]_vars => Valid' /\ IInv'
  BY NextType, NextFine
<1>3. IInv => Precise
  BY DEF IInv
<1> QED
  BY <1>1, <1>2, <1>3, PTL DEF Spec
-----------------------------------------------------------------------------
(* The inductive invariant.  Within a query marks and records only grow,   *)
(* so a fact about an activation outlives all it calls.                    *)

Has(L, k) == \E m \in L : m.at = k
Marked(i, V, L) == i.at \in V /\ (i.at.loc \in Mem => Has(L, i.at))

FrameAsked(f, V, L) ==
  /\ f.item.at.loc \in Mem => Has(L, f.item.at)
  /\ \A x \in f.visits : x.edge.ind => Has(L, x.from)
  /\ \A i \in f.items : Marked(i, V, L)

StackAsked(st, V, L) == \A i \in 1..Len(st) : FrameAsked(st[i], V, L)
RecordAsked(R, V, L) == \A e \in Engine : \A i \in R[e] : Marked(i, V[e], L[e])

AskedFirst ==
  /\ RecordAsked(recorded, visited, loadVar)
  /\ StackAsked(stack, visited[engine], loadVar[engine])

Grows(L, M) == \A k : Has(L, k) => Has(M, k)

-----------------------------------------------------------------------------
(* The stack.                                                              *)

(* What has been asked stays asked when more is asked.                     *)
LEMMA LaterAsked ==
  ASSUME NEW st, NEW V, NEW W, V \subseteq W, NEW L, NEW M, Grows(L, M), StackAsked(st, V, L)
  PROVE  StackAsked(st, W, M)
BY DEF StackAsked, FrameAsked, Marked, Grows

(* A call for an item that has been asked.                                 *)
LEMMA PushAsked ==
  ASSUME NEW V, NEW L, NEW st \in Seq(Frame), StackAsked(st, V, L), NEW f \in Frame,
         FrameAsked(f, V, L)
  PROVE  StackAsked(Append(st, f), V, L) /\ Append(st, f) \in Seq(Frame)
<1> DEFINE new == Append(st, f)
<1>1. /\ new \in Seq(Frame) /\ Len(new) = Len(st) + 1 /\ Len(st) \in Nat
      /\ \A i \in 1..Len(st) : new[i] = st[i]
      /\ new[Len(st) + 1] = f
  BY AppendProperties, LenProperties
<1> HIDE DEF new
<1>2. \A i \in 1..Len(new) : FrameAsked(new[i], V, L)
  BY <1>1 DEF StackAsked
<1> QED
  BY <1>1, <1>2 DEF StackAsked, new

(* The two parts of the stack.                                             *)
LEMMA TopAsked ==
  ASSUME TypeOK, stack # <<>>, AskedFirst
  PROVE  /\ FrameAsked(top, visited[engine], loadVar[engine])
         /\ StackAsked(Below, visited[engine], loadVar[engine])
         /\ top \in Frame /\ Below \in Seq(Frame)
<1> DEFINE n == Len(stack) - 1
<1>1. stack \in Seq(Frame) /\ n \in Nat /\ Len(stack) = n + 1 /\ top \in Frame
      /\ Below \in Seq(Frame)
  BY TopType DEF TypeOK
<1>2. Len(Below) = n /\ \A i \in 1..n : Below[i] = stack[i]
  <2>1. \A i \in 1..n : stack[i] \in Frame
    BY <1>1, ElementOfSeq
  <2> QED
    BY <1>1, <2>1, SubSeqProperties DEF Below
<1>3. FrameAsked(top, visited[engine], loadVar[engine])
  BY <1>1 DEF AskedFirst, StackAsked, top
<1>4. StackAsked(Below, visited[engine], loadVar[engine])
  BY <1>1, <1>2 DEF AskedFirst, StackAsked
<1> QED
  BY <1>1, <1>3, <1>4

(* The running call goes on with what has been asked.                      *)
LEMMA ReplaceAsked ==
  ASSUME TypeOK, stack # <<>>, AskedFirst, NEW f \in Frame,
         FrameAsked(f, visited[engine], loadVar[engine])
  PROVE  /\ StackAsked(Replace(f), visited[engine], loadVar[engine])
         /\ Replace(f) \in Seq(Frame)
BY TopAsked, PushAsked DEF Replace

LEMMA GiveAsked ==
  ASSUME NEW V, NEW L, NEW st \in Seq(Frame), StackAsked(st, V, L), NEW pts \in SUBSET CVar
  PROVE  StackAsked(Give(st, pts), V, L)
<1>1. CASE st = <<>>
  BY <1>1 DEF Give
<1>2. CASE st # <<>>
  <2> DEFINE f == st[Len(st)]
             new == CASE f.into = "pts" -> [f EXCEPT !.pts = UnionPts(@, pts)]
                      [] f.into = "base" -> [f EXCEPT !.base = UnionPts(@, pts)]
                      [] f.into = "none" -> f
  <2>1. Len(st) \in 1..Len(st) /\ f \in Frame
    BY <1>2, EmptySeq, LenProperties, ElementOfSeq
  <2>2. FrameAsked(f, V, L)
    BY <2>1 DEF StackAsked
  <2> HIDE DEF f
  <2>3. f.into \in {"pts", "base", "none"}
    BY <2>1 DEF Frame
  <2>4. new \in Frame
    <3>1. UnionPts(f.pts, pts) \in SUBSET CVar /\ UnionPts(f.base, pts) \in SUBSET CVar
      BY <2>1, UnionPtsSubset DEF Frame
    <3> QED
      BY <2>1, <2>3, <3>1 DEF Frame
  <2>5. new.item = f.item /\ new.visits = f.visits /\ new.items = f.items
    BY <2>1, <2>3 DEF Frame
  <2> HIDE DEF new
  <2>6. FrameAsked(new, V, L)
    BY <2>2, <2>5 DEF FrameAsked
  <2>7. /\ Len([st EXCEPT ![Len(st)] = new]) = Len(st)
        /\ \A j \in 1..Len(st) : [st EXCEPT ![Len(st)] = new][j] = IF j = Len(st) THEN new ELSE st[j]
    BY <2>1, <2>4, ExceptSeq
  <2>8. Give(st, pts) = [st EXCEPT ![Len(st)] = new]
    BY <1>2 DEF Give, new, f
  <2>9. ASSUME NEW i \in 1..Len(st) PROVE FrameAsked(Give(st, pts)[i], V, L)
    <3>1. CASE i = Len(st)
      BY <2>6, <2>7, <2>8, <3>1
    <3>2. CASE i # Len(st)
      BY <2>7, <2>8, <3>2 DEF StackAsked
    <3> QED
      BY <3>1, <3>2
  <2> QED
    BY <2>7, <2>8, <2>9 DEF StackAsked
<1> QED
  BY <1>1, <1>2

LEMMA NewFrameAsked ==
  ASSUME NEW V, NEW L, NEW d, d.at.loc \in Mem => Has(L, d.at), NEW stage, NEW E
  PROVE  FrameAsked(NewFrame(d, stage, E), V, L)
BY DEF NewFrame, FrameAsked

LEMMA FindPTAsked ==
  ASSUME Valid, AskedFirst, NEW d \in Item, NEW vis, visited[engine] \subseteq vis \union {d.at},
         NEW st \in Seq(Frame), StackAsked(st, visited[engine], loadVar[engine]),
         engine' = engine, \A e \in Engine : Grows(loadVar[e], loadVar'[e]),
         d.at.loc \in Mem => Has(loadVar'[engine], d.at), FindPT(d, vis, st)
  PROVE  AskedFirst'
<1>1. engine \in Engine
  BY DEF Valid, TypeOK
<1>2. /\ visited' = [visited EXCEPT ![engine] = vis \union {d.at}]
      /\ recorded' = recorded \/ recorded' = [recorded EXCEPT ![engine] = Insert(@, d)]
      /\ \/ stack' = Give(st, CachedPts(engine, d.at))
         \/ stack' = Append(st, NewFrame(d, "funptr", {}))
  BY DEF FindPT
<1>3. \A e \in Engine : visited[e] \subseteq visited'[e] /\ d.at \in visited'[engine]
  BY <1>1, <1>2 DEF Valid, TypeOK
<1>4. \A e \in Engine : \A i \in recorded'[e] : i \in recorded[e] \/ (i = d /\ e = engine)
  BY <1>1, <1>2 DEF Insert, Valid, TypeOK
<1>5. RecordAsked(recorded', visited', loadVar')
  BY <1>3, <1>4 DEF RecordAsked, Marked, Grows, AskedFirst
<1>6. StackAsked(st, visited'[engine], loadVar'[engine])
  BY <1>1, <1>3, LaterAsked
<1>7. StackAsked(Give(st, CachedPts(engine, d.at)), visited'[engine], loadVar'[engine])
  BY <1>1, <1>6, GiveAsked, CachedType DEF Valid
<1>8. StackAsked(Append(st, NewFrame(d, "funptr", {})), visited'[engine], loadVar'[engine])
  <2>1. NewFrame(d, "funptr", {}) \in Frame
    BY NewFrameType DEF Valid, Stage
  <2> QED
    BY <1>6, <2>1, NewFrameAsked, PushAsked
<1> QED
  BY <1>2, <1>5, <1>7, <1>8 DEF AskedFirst

LEMMA UpdateAsked ==
  ASSUME Valid, NEW e \in Engine, NEW d \in Item, NEW pts, NEW st \in Seq(Frame),
         NEW V, NEW L, StackAsked(st, V, L), d.at.loc \in Mem => Has(L, d.at),
         UpdateCachedPointsTo(e, d, pts, st)
  PROVE  StackAsked(stack', V, L)
<1>1. StackAsked(Give(st, CachedPts(e, d.at)), V, L)
  BY GiveAsked, CachedType DEF Valid
<1>2. \/ stack' = Give(st, CachedPts(e, d.at))
      \/ \E E \in SUBSET Edge : stack' = Append(st, NewFrame(d, "new", E))
  <2> DEFINE all == UnionPts(CachedPts(e, d.at), pts)
             new == {c \in prog.icalls : /\ c.fp = d.at.cur /\ \E o \in all : o.id = c.target
                                         /\ c.id \notin called[e]}
             connected == UNION {c.edges : c \in new}
  <2>1. \/ stack' = Give(st, CachedPts(e, d.at))
        \/ stack' = Append(st, NewFrame(d, "new", connected \ edges[e]))
    BY DEF UpdateCachedPointsTo
  <2>2. connected \in SUBSET Edge
    BY ProgramParts DEF Valid
  <2> QED
    BY <2>1, <2>2
<1>3. ASSUME NEW E \in SUBSET Edge PROVE StackAsked(Append(st, NewFrame(d, "new", E)), V, L)
  <2>1. NewFrame(d, "new", E) \in Frame
    BY NewFrameType DEF Valid, Stage
  <2> QED
    BY <2>1, NewFrameAsked, PushAsked
<1> QED
  BY <1>1, <1>2, <1>3

LEMMA ComputeAsked ==
  ASSUME Valid, AskedFirst, NEW e \in Engine, NEW v \in Var, ComputeDDAPts(e, v)
  PROVE  AskedFirst'
<1> DEFINE root == ItemOf(v, <<>>, TRUE)
<1>1. root.at.loc = v /\ root.at.loc \notin Mem
  BY NamesAssumption DEF ItemOf
<1>2. /\ root.at \in visited'[e] /\ \A x \in Engine : x # e => visited'[x] = visited[x]
      /\ recorded'[e] \subseteq {root}
      /\ \A x \in Engine : x # e => recorded'[x] = recorded[x] /\ loadVar'[x] = loadVar[x]
  BY DEF ComputeDDAPts, Met, Valid, TypeOK
<1>3. stack' = <<>> \/ stack' = <<NewFrame(root, "funptr", {})>>
  BY DEF ComputeDDAPts
<1> HIDE DEF root
<1>4. RecordAsked(recorded', visited', loadVar')
  BY <1>1, <1>2 DEF RecordAsked, Marked, AskedFirst
<1>5. FrameAsked(NewFrame(root, "funptr", {}), visited'[engine'], loadVar'[engine'])
  BY <1>1, NewFrameAsked
<1>6. StackAsked(stack', visited'[engine'], loadVar'[engine'])
  BY <1>3, <1>5 DEF StackAsked
<1> QED
  BY <1>4, <1>6 DEF AskedFirst

-----------------------------------------------------------------------------
(* The invariant, action by action.                                        *)

LEMMA InitAsked ==
  ASSUME Init
  PROVE  AskedFirst
BY DEF Init, AskedFirst, RecordAsked, StackAsked

LEMMA StartQueryAsked ==
  ASSUME Valid, AskedFirst, NEW v \in queries, StartQuery(v)
  PROVE  AskedFirst'
<1>1. v \in Var /\ prog.engine \in Engine
  BY ProgramParts DEF Valid, TypeOK
<1> QED
  BY <1>1, ComputeAsked DEF StartQuery

(* Steps that look for nothing new.                                        *)
LEMMA SameLooked ==
  ASSUME UNCHANGED loadVar
  PROVE  \A e \in Engine : Grows(loadVar[e], loadVar'[e])
BY DEF Grows

(* Recording an object forgets none.                                       *)
LEMMA PutGrows ==
  ASSUME Valid, NEW k, NEW c, loadVar' = [loadVar EXCEPT ![engine] = Put(@, k, c)]
  PROVE  (\A e \in Engine : Grows(loadVar[e], loadVar'[e])) /\ Has(loadVar'[engine], k)
<1>1. engine \in Engine
  BY DEF Valid, TypeOK
<1>2. loadVar'[engine] = Put(loadVar[engine], k, c)
      /\ \A e \in Engine : e # engine => loadVar'[e] = loadVar[e]
  BY <1>1 DEF Valid, TypeOK
<1>3. \A L : Has(Put(L, k, c), k) /\ Grows(L, Put(L, k, c))
  <2> TAKE L
  <2>1. [at |-> k, var |-> c] \in Put(L, k, c) /\ [at |-> k, var |-> c].at = k
        /\ \A m \in L : m.at # k => m \in Put(L, k, c)
    BY DEF Put
  <2> QED
    BY <2>1 DEF Grows, Has
<1>4. Has(loadVar'[engine], k) /\ Grows(loadVar[engine], loadVar'[engine])
  BY <1>2, <1>3
<1> QED
  BY <1>2, <1>3, <1>4 DEF Grows

(* A step that changes only the frame on top, and what is looked for.      *)
LEMMA OnlyTopAsked ==
  ASSUME Valid, AskedFirst, UNCHANGED onlyTop, \A e \in Engine : Grows(loadVar[e], loadVar'[e]),
         stack # <<>>, NEW f \in Frame, stack' = Replace(f),
         FrameAsked(f, visited[engine], loadVar'[engine])
  PROVE  AskedFirst'
<1>1. visited' = visited /\ recorded' = recorded /\ engine' = engine /\ engine \in Engine
  BY DEF onlyTop, inQuery, Valid, TypeOK
<1>2. Below \in Seq(Frame) /\ StackAsked(Below, visited[engine], loadVar[engine])
  BY TopAsked DEF Valid
<1>3. StackAsked(Below, visited[engine], loadVar'[engine])
  BY <1>1, <1>2, LaterAsked
<1>4. StackAsked(stack', visited[engine], loadVar'[engine])
  BY <1>2, <1>3, PushAsked DEF Replace
<1>5. RecordAsked(recorded, visited, loadVar')
  BY DEF AskedFirst, RecordAsked, Marked, Grows
<1> QED
  BY <1>1, <1>4, <1>5 DEF AskedFirst

LEMMA ResolveFunPtrAsked ==
  ASSUME Valid, AskedFirst, NEW v \in Var, ResolveFunPtr(v)
  PROVE  AskedFirst'
<1> DEFINE f == [top EXCEPT !.funs = @ \ {v}]
           d == ItemOf(v, top.item.at.cxt, top.item.conc)
<1>1. TypeOK /\ stack # <<>>
  BY DEF ResolveFunPtr, Running, Valid
<1>2. top \in Frame /\ FrameAsked(top, visited[engine], loadVar[engine])
  BY <1>1, TopAsked
<1>3. d \in Item /\ d.at.loc \notin Mem
  BY <1>2, ItemParts, ItemOfType, NamesAssumption DEF ItemOf
<1>4. f \in Frame /\ FrameAsked(f, visited[engine], loadVar[engine])
  BY <1>2 DEF Frame, FrameAsked
<1>5. FindPT(d, visited[engine], Replace(f)) /\ engine' = engine /\ UNCHANGED loadVar
  BY DEF ResolveFunPtr, inQuery
<1> HIDE DEF f, d
<1>6. StackAsked(Replace(f), visited[engine], loadVar[engine]) /\ Replace(f) \in Seq(Frame)
  BY <1>1, <1>4, ReplaceAsked
<1> QED
  BY <1>3, <1>5, <1>6, SameLooked, FindPTAsked

(* Visits that leave an item through memory were recorded with the item.   *)
LEMMA VisitsAsked ==
  ASSUME NEW f, NEW V, NEW L, FrameAsked(f, V, L), NEW g, g.item = f.item, g.items = f.items,
         \A x \in g.visits : x.edge.ind => x \in f.visits \/ Has(L, x.from)
  PROVE  FrameAsked(g, V, L)
BY DEF FrameAsked

LEMMA BeginStatementAsked ==
  ASSUME Valid, AskedFirst, BeginStatement
  PROVE  AskedFirst'
<1> DEFINE k == top.item.at
           n == k.loc
           V == visited[engine]
           L == loadVar[engine]
<1>1. TypeOK /\ stack # <<>> /\ stack' \in Seq(Frame)
  BY BeginStatementType DEF BeginStatement, Running, Valid, TypeOK
<1>2. top \in Frame /\ FrameAsked(top, V, L) /\ n \in Node
  BY <1>1, TopAsked, ItemParts
<1>3. ASSUME prog.kind[n] = "mr", NEW x \in IndirectVF(engine, k)
      PROVE  Has(L, x.from)
  <2>1. n \in Mem /\ x.from = k
    BY <1>2, <1>3, ProgramShape DEF IndirectVF, Valid
  <2> QED
    BY <1>2, <2>1 DEF FrameAsked
<1>4. \A v : \A x \in DirectVF(engine, k) \union OperandVF(engine, k, v) : ~x.edge.ind
  BY DEF DirectVF, OperandVF
<1>5. prog.kind[n] \in {"addr", "copy", "gep", "load", "store", "mr"}
  BY <1>2, ProgramParts DEF Valid
<1>6. PICK f : /\ stack' = Replace(f) /\ f.item = top.item /\ f.items = top.items
               /\ \A x \in f.visits : x.edge.ind => x \in top.visits \/ Has(L, x.from)
  <2> HIDE DEF L
  <2>1. CASE prog.kind[n] = "addr"
    <3> DEFINE f == [top EXCEPT !.stage = "stmt",
                       !.pts = {[id |-> prog.obj[n], cxt |-> k.cxt, conc |-> top.item.conc]}]
    <3>1. f.item = top.item /\ f.items = top.items /\ f.visits = top.visits
      BY <1>2 DEF Frame
    <3> QED
      BY <2>1, <3>1 DEF BeginStatement
  <2>2. CASE prog.kind[n] \in {"copy", "gep"}
    <3> DEFINE f == [top EXCEPT !.stage = "stmt", !.into = "pts", !.visits = DirectVF(engine, k)]
    <3>1. f.item = top.item /\ f.items = top.items /\ f.visits = DirectVF(engine, k)
      BY <1>2 DEF Frame
    <3> QED
      BY <1>4, <2>2, <3>1 DEF BeginStatement
  <2>3. CASE prog.kind[n] = "mr"
    <3> DEFINE f == [top EXCEPT !.stage = "stmt", !.into = "pts", !.visits = IndirectVF(engine, k)]
    <3>1. f.item = top.item /\ f.items = top.items /\ f.visits = IndirectVF(engine, k)
      BY <1>2 DEF Frame
    <3> QED
      BY <1>3, <2>3, <3>1 DEF BeginStatement
  <2>4. CASE prog.kind[n] = "load"
    <3> DEFINE f == [top EXCEPT !.stage = "base", !.into = "base",
                       !.visits = OperandVF(engine, k, prog.src[n])]
    <3>1. f.item = top.item /\ f.items = top.items /\ f.visits = OperandVF(engine, k, prog.src[n])
      BY <1>2 DEF Frame
    <3> QED
      BY <1>4, <2>4, <3>1 DEF BeginStatement
  <2>5. CASE prog.kind[n] = "store"
    <3> DEFINE f == [top EXCEPT !.stage = "base", !.into = "base",
                       !.visits = OperandVF(engine, k, prog.dst[n])]
    <3>1. f.item = top.item /\ f.items = top.items /\ f.visits = OperandVF(engine, k, prog.dst[n])
      BY <1>2 DEF Frame
    <3> QED
      BY <1>4, <2>5, <3>1 DEF BeginStatement
  <2> QED
    BY <1>5, <2>1, <2>2, <2>3, <2>4, <2>5
<1>7. FrameAsked(f, V, L)
  BY <1>2, <1>6, VisitsAsked
<1>8. f \in Frame
  <2>1. Below \in Seq(Frame) /\ stack' = Append(Below, f)
    BY <1>1, <1>6, TopAsked DEF Replace
  <2> QED
    BY <1>1, <2>1
<1> QED
  BY <1>1, <1>6, <1>7, <1>8, SameLooked, OnlyTopAsked DEF BeginStatement

LEMMA BackwardPropDpmAsked ==
  ASSUME Valid, AskedFirst, stack # <<>>, NEW x \in top.visits, BackwardPropDpm(x)
  PROVE  AskedFirst'
<1> DEFINE g == x.edge
           s == top.item.at.cxt
           d == [at |-> [loc |-> g.src, cur |-> IF g.ind THEN x.from.cur ELSE g.src,
                         cxt |-> Context(Now, s, g)],
                 conc |-> Concrete(Now, s, top.item.conc, g)]
           f == [top EXCEPT !.visits = @ \ {x}]
           rest == Replace(f)
<1>1. TypeOK /\ UNCHANGED <<inQuery, cache, graph>> /\ engine' = engine
  BY DEF Valid, BackwardPropDpm, inQuery
<1>2. top \in Frame /\ FrameAsked(top, visited[engine], loadVar[engine])
  BY <1>1, TopAsked
<1>3. d \in Item /\ d.at.loc = g.src
  BY <1>2, SourceType
<1>4. ~g.ind => d.at.loc \notin Mem
  BY <1>2, <1>3, NamesAssumption DEF Frame, Visit, Edge
<1>5. f \in Frame /\ FrameAsked(f, visited[engine], loadVar[engine])
  BY <1>2 DEF Frame, FrameAsked
<1> HIDE DEF d, f, g, s
<1>6. StackAsked(rest, visited[engine], loadVar[engine]) /\ rest \in Seq(Frame)
  BY <1>1, <1>5, ReplaceAsked
<1>7. CASE /\ \/ ~g.ind /\ UNCHANGED loadVar
              \/ /\ g.ind
                 /\ \E m \in loadVar[engine] :
                      /\ m.at = x.from
                      /\ loadVar' = [loadVar EXCEPT ![engine] = Put(@, d.at, m.var)]
           /\ FindPT(d, visited[engine], rest)
  <2>1. CASE ~g.ind /\ UNCHANGED loadVar
    BY <1>1, <1>3, <1>4, <1>6, <1>7, <2>1, SameLooked, FindPTAsked
  <2>2. CASE \E m \in loadVar[engine] : loadVar' = [loadVar EXCEPT ![engine] = Put(@, d.at, m.var)]
    <3>1. (\A e \in Engine : Grows(loadVar[e], loadVar'[e])) /\ Has(loadVar'[engine], d.at)
      BY <2>2, PutGrows
    <3> QED
      BY <1>1, <1>3, <1>6, <1>7, <3>1, FindPTAsked
  <2> QED
    BY <1>7, <2>1, <2>2
<1>8. CASE /\ stack' = rest
           /\ UNCHANGED <<visited, recorded, loadVar, steps>>
  BY <1>1, <1>6, <1>8 DEF AskedFirst
<1> QED
  BY <1>7, <1>8 DEF BackwardPropDpm, d, f, g, s

LEMMA BaseDoneAsked ==
  ASSUME Valid, AskedFirst, BaseDone
  PROVE  AskedFirst'
<1> DEFINE f == [top EXCEPT !.stage = "stmt", !.into = "pts", !.objs = top.base]
<1>1. TypeOK /\ stack # <<>>
  BY DEF BaseDone, Idle, Running, Valid
<1>2. top \in Frame /\ FrameAsked(top, visited[engine], loadVar[engine])
  BY <1>1, TopAsked
<1>3. f \in Frame /\ FrameAsked(f, visited[engine], loadVar[engine])
  BY <1>2 DEF Frame, Stage, FrameAsked
<1> QED
  BY <1>1, <1>3, SameLooked, OnlyTopAsked DEF BaseDone

(* Visits along memory edges for an object that was just recorded.         *)
LEMMA LookedVisits ==
  ASSUME Valid, NEW f \in Frame, NEW V, NEW L, FrameAsked(f, V, L), NEW k \in Key, Has(L, k)
  PROVE  /\ [f EXCEPT !.visits = IndirectVF(engine, k)] \in Frame
         /\ FrameAsked([f EXCEPT !.visits = IndirectVF(engine, k)], V, L)
<1>1. IndirectVF(engine, k) \in SUBSET Visit /\ \A x \in IndirectVF(engine, k) : x.from = k
  BY VisitTypes DEF IndirectVF
<1> HIDE DEF IndirectVF
<1> QED
  BY <1>1 DEF Frame, FrameAsked

LEMMA LoadObjectAsked ==
  ASSUME Valid, AskedFirst, stack # <<>>, NEW c \in top.objs, LoadObject(c)
  PROVE  AskedFirst'
<1> DEFINE k == ObjKey(top.item.at, c)
<1>1. TypeOK
  BY DEF Valid
<1>2. top \in Frame /\ FrameAsked(top, visited[engine], loadVar[engine]) /\ top.item.at \in Key
  BY <1>1, TopAsked, ItemParts
<1>3. k \in Key
  BY <1>2 DEF ObjKey, Key, Frame, CVar
<1>4. (\A e \in Engine : Grows(loadVar[e], loadVar'[e])) /\ Has(loadVar'[engine], k)
  BY PutGrows DEF LoadObject, LookFor
<1>5. engine \in Engine
  BY DEF Valid, TypeOK
<1>6. Rest(c) \in Frame /\ FrameAsked(Rest(c), visited[engine], loadVar'[engine])
  BY <1>2, <1>4, <1>5 DEF Rest, Frame, FrameAsked, Marked, Grows
<1> HIDE DEF k
<1>7. [Rest(c) EXCEPT !.visits = IndirectVF(engine, k)] \in Frame
      /\ FrameAsked([Rest(c) EXCEPT !.visits = IndirectVF(engine, k)], visited[engine],
                    loadVar'[engine])
  BY <1>3, <1>4, <1>6, LookedVisits
<1> QED
  BY <1>4, <1>7, OnlyTopAsked DEF LoadObject, k

LEMMA StoreObjectAsked ==
  ASSUME Valid, AskedFirst, stack # <<>>, NEW c \in top.objs, StoreObject(c)
  PROVE  AskedFirst'
<1> DEFINE k == top.item.at
           V == OperandVF(engine, k, prog.src[k.loc])
           f == [Rest(c) EXCEPT !.weak = c, !.visits = V]
<1>1. TypeOK /\ prog.kind[k.loc] = "store" /\ engine \in Engine
  BY DEF StoreObject, Valid, TypeOK
<1>2. top \in Frame /\ FrameAsked(top, visited[engine], loadVar[engine]) /\ k \in Key
  BY <1>1, TopAsked, ItemParts
<1>3. Has(loadVar[engine], k)
  BY <1>1, <1>2, ProgramShape DEF FrameAsked, Key, Valid
<1>4. Rest(c) \in Frame /\ FrameAsked(Rest(c), visited[engine], loadVar[engine])
  BY <1>2 DEF Rest, Frame, FrameAsked
<1>5. CASE stack' = Replace(f) /\ LookFor(k, c)
  <2>1. \A e \in Engine : Grows(loadVar[e], loadVar'[e])
    BY <1>5, PutGrows DEF LookFor
  <2>2. V \in SUBSET Visit /\ \A x \in V : ~x.edge.ind
    BY <1>2, VisitTypes DEF OperandVF, DirectVF
  <2> HIDE DEF V
  <2>3. c \in CVar
    BY <1>2 DEF Frame
  <2>4. f \in Frame /\ f.visits = V /\ f.item = Rest(c).item /\ f.items = Rest(c).items
    BY <1>4, <2>2, <2>3 DEF Frame
  <2> HIDE DEF f
  <2>5. FrameAsked(f, visited[engine], loadVar'[engine])
    BY <1>1, <1>4, <2>1, <2>2, <2>4 DEF FrameAsked, Marked, Grows
  <2> QED
    BY <1>5, <2>1, <2>4, <2>5, OnlyTopAsked DEF StoreObject
<1>6. CASE stack' = Replace([Rest(c) EXCEPT !.visits = IndirectVF(engine, k)]) /\ UNCHANGED loadVar
  BY <1>2, <1>3, <1>4, <1>6, LookedVisits, SameLooked, OnlyTopAsked DEF StoreObject
<1> QED
  BY <1>5, <1>6 DEF StoreObject

LEMMA OldValuesAsked ==
  ASSUME Valid, AskedFirst, OldValues
  PROVE  AskedFirst'
<1> DEFINE k == top.item.at
           r == [top EXCEPT !.weak = None]
           f == [top EXCEPT !.weak = None, !.visits = IndirectVF(engine, k)]
<1>1. TypeOK /\ stack # <<>> /\ engine \in Engine
  BY DEF OldValues, Idle, Running, Valid, TypeOK
<1>2. top \in Frame /\ FrameAsked(top, visited[engine], loadVar[engine]) /\ k \in Key
  BY <1>1, TopAsked, ItemParts
<1>3. r \in Frame /\ FrameAsked(r, visited[engine], loadVar[engine])
  BY <1>2 DEF Frame, FrameAsked
<1>4. CASE stack' = Replace(r) /\ UNCHANGED loadVar
  BY <1>1, <1>3, <1>4, SameLooked, OnlyTopAsked DEF OldValues
<1>5. CASE stack' = Replace(f) /\ LookFor(k, top.weak)
  <2>1. (\A e \in Engine : Grows(loadVar[e], loadVar'[e])) /\ Has(loadVar'[engine], k)
    BY <1>5, PutGrows DEF LookFor
  <2>2. FrameAsked(r, visited[engine], loadVar'[engine])
    BY <1>1, <1>3, <2>1 DEF FrameAsked, Marked, Grows
  <2>3. f = [r EXCEPT !.visits = IndirectVF(engine, k)]
    BY <1>2 DEF Frame
  <2> HIDE DEF f, r
  <2>4. f \in Frame /\ FrameAsked(f, visited[engine], loadVar'[engine])
    BY <1>2, <1>3, <2>1, <2>2, <2>3, LookedVisits
  <2> QED
    BY <1>1, <1>5, <2>1, <2>4, OnlyTopAsked DEF OldValues
<1> QED
  BY <1>4, <1>5 DEF OldValues

LEMMA EndStatementAsked ==
  ASSUME Valid, AskedFirst, EndStatement
  PROVE  AskedFirst'
<1>1. TypeOK /\ stack # <<>> /\ engine \in Engine
  BY DEF EndStatement, Idle, Running, Valid, TypeOK
<1>2. /\ top \in Frame /\ FrameAsked(top, visited[engine], loadVar[engine])
      /\ Below \in Seq(Frame) /\ StackAsked(Below, visited[engine], loadVar[engine])
  BY <1>1, TopAsked
<1>3. top.item \in Item /\ (top.item.at.loc \in Mem => Has(loadVar[engine], top.item.at))
  BY <1>2, ItemParts DEF FrameAsked
<1>4. StackAsked(stack', visited[engine], loadVar[engine])
  BY <1>1, <1>2, <1>3, UpdateAsked DEF EndStatement
<1> QED
  BY <1>4 DEF EndStatement, AskedFirst, inQuery

LEMMA NextEdgeAsked ==
  ASSUME Valid, AskedFirst, stack # <<>>, NEW g \in top.edges, NextEdge(g)
  PROVE  AskedFirst'
<1> DEFINE I == Affected(engine, top.item.at, g, top.stage = "new")
           f == [top EXCEPT !.edges = @ \ {g}, !.items = I]
<1>1. TypeOK /\ engine \in Engine
  BY DEF Valid, TypeOK
<1>2. top \in Frame /\ FrameAsked(top, visited[engine], loadVar[engine])
  BY <1>1, TopAsked
<1>3. I \in SUBSET Item /\ \A i \in I : Marked(i, visited[engine], loadVar[engine])
  BY <1>1 DEF Affected, AskedFirst, RecordAsked, Valid, TypeOK
<1> HIDE DEF I
<1>4. f \in Frame /\ FrameAsked(f, visited[engine], loadVar[engine])
  BY <1>2, <1>3 DEF Frame, FrameAsked
<1>5. stack' = Replace(f) /\ UNCHANGED onlyTop /\ UNCHANGED loadVar
  BY DEF NextEdge, I
<1> HIDE DEF f
<1> QED
  BY <1>4, <1>5, SameLooked, OnlyTopAsked

LEMMA ReComputeAsked ==
  ASSUME Valid, AskedFirst, stack # <<>>, NEW d \in top.items, ReCompute(d)
  PROVE  AskedFirst'
<1> DEFINE f == [top EXCEPT !.items = @ \ {d}]
<1>1. TypeOK
  BY DEF Valid
<1>2. top \in Frame /\ FrameAsked(top, visited[engine], loadVar[engine])
  BY <1>1, TopAsked
<1>3. d \in Item /\ Marked(d, visited[engine], loadVar[engine])
  BY <1>2 DEF Frame, FrameAsked
<1>4. f \in Frame /\ FrameAsked(f, visited[engine], loadVar[engine])
  BY <1>2 DEF Frame, FrameAsked
<1>5. FindPT(d, visited[engine] \ {d.at}, Replace(f)) /\ engine' = engine /\ UNCHANGED loadVar
  BY DEF ReCompute, inQuery
<1> HIDE DEF f
<1>6. StackAsked(Replace(f), visited[engine], loadVar[engine]) /\ Replace(f) \in Seq(Frame)
  BY <1>1, <1>4, ReplaceAsked
<1>7. visited[engine] \subseteq (visited[engine] \ {d.at}) \union {d.at}
  OBVIOUS
<1>8. d.at.loc \in Mem => Has(loadVar'[engine], d.at)
  BY <1>3, <1>5 DEF Marked
<1> QED
  BY <1>3, <1>5, <1>6, <1>7, <1>8, SameLooked, FindPTAsked

LEMMA OutEdgesAsked ==
  ASSUME Valid, AskedFirst, OutEdges
  PROVE  AskedFirst'
<1> DEFINE E == {g \in edges[engine] : g.src = top.item.at.loc}
           f == [top EXCEPT !.stage = "out", !.edges = E]
<1>1. TypeOK /\ stack # <<>> /\ E \in SUBSET Edge
  BY DEF OutEdges, Running, Valid, TypeOK
<1> HIDE DEF E
<1>2. top \in Frame /\ FrameAsked(top, visited[engine], loadVar[engine])
  BY <1>1, TopAsked
<1>3. f \in Frame /\ FrameAsked(f, visited[engine], loadVar[engine])
  BY <1>1, <1>2 DEF Frame, Stage, FrameAsked
<1>4. stack' = Replace(f) /\ UNCHANGED onlyTop /\ UNCHANGED loadVar
  BY DEF OutEdges, E
<1> HIDE DEF f
<1> QED
  BY <1>1, <1>3, <1>4, SameLooked, OnlyTopAsked

LEMMA ReturnAsked ==
  ASSUME Valid, AskedFirst, Return
  PROVE  AskedFirst'
<1>1. TypeOK /\ stack # <<>> /\ engine \in Engine
  BY DEF Return, Running, Valid, TypeOK
<1>2. StackAsked(Give(Below, CachedPts(engine, top.item.at)), visited[engine], loadVar[engine])
  BY <1>1, TopAsked, GiveAsked, CachedType
<1> QED
  BY <1>2 DEF Return, AskedFirst, onlyTop, inQuery

LEMMA DowngradeAsked ==
  ASSUME Valid, AskedFirst, Downgrade
  PROVE  AskedFirst'
<1>1. query \in Var /\ "flow" \in Engine
  BY DEF Downgrade, Valid, TypeOK, Engine
<1> QED
  BY <1>1, ComputeAsked DEF Downgrade

(* Falling back pushes at most one activation, for the pointer asked.      *)
LEMMA FallBackAsked ==
  ASSUME Valid, AskedFirst, pc # "answered", NEW e \in Engine, NEW pts,
         UpdateCachedPointsTo(e, Root, pts, <<>>), UNCHANGED <<visited, recorded, loadVar>>
  PROVE  AskedFirst'
<1>1. Root \in Item /\ Root.at.loc \notin Mem
  BY RootType, NamesAssumption DEF Root, ItemOf
<1>2. <<>> \in Seq(Frame) /\ StackAsked(<<>>, visited[engine'], loadVar[engine'])
  BY EmptySeq DEF StackAsked
<1>3. StackAsked(stack', visited[engine'], loadVar[engine'])
  BY <1>1, <1>2, UpdateAsked
<1> QED
  BY <1>3 DEF AskedFirst

(* The next query starts with an empty record.                             *)
LEMMA EndOfQueryAsked ==
  ASSUME Valid, AskedFirst, EndOfQuery
  PROVE  AskedFirst'
<1>1. CASE AnswerInBudget \/ AnswerDegraded
  BY <1>1 DEF AnswerInBudget, AnswerDegraded, AskedFirst
<1>2. CASE Downgrade
  BY <1>2, DowngradeAsked
<1>3. CASE DegradeFlow
  BY <1>3, FallBackAsked DEF DegradeFlow, Engine
<1>4. CASE DegradeContext
  <2>1. pc # "answered" /\ "cxt" \in Engine
    BY <1>4 DEF DegradeContext, Engine
  <2> QED
    BY <1>4, <2>1, FallBackAsked DEF DegradeContext
<1> QED
  BY <1>1, <1>2, <1>3, <1>4 DEF EndOfQuery

LEMMA NextAsked ==
  ASSUME Valid, AskedFirst, [Next]_vars
  PROVE  AskedFirst'
<1>1. CASE \E v \in queries : StartQuery(v)
  BY <1>1, StartQueryAsked
<1>2. CASE Statement
  BY <1>2, ResolveFunPtrAsked, BeginStatementAsked, BackwardPropDpmAsked, BaseDoneAsked,
     LoadObjectAsked, StoreObjectAsked, OldValuesAsked, EndStatementAsked DEF Statement
<1>3. CASE Recomputation
  BY <1>3, NextEdgeAsked, ReComputeAsked, OutEdgesAsked, ReturnAsked DEF Recomputation
<1>4. CASE EndOfQuery
  BY <1>4, EndOfQueryAsked
<1>5. CASE UNCHANGED vars
  BY <1>5 DEF vars, AskedFirst
<1> QED
  BY <1>1, <1>2, <1>3, <1>4, <1>5 DEF Next, Terminated

(* In every program clearbkVisited() only unmarks items that are marked,   *)
(* and getLoadCVar() only asks for objects that the query has recorded,    *)
(* although marks outlive a query and these records do not.                *)
THEOREM AssertionsHold == Spec => []NoAssertionFails
<1>1. Init => Valid /\ AskedFirst
  BY InitType, InitAsked
<1>2. Valid /\ AskedFirst /\ [Next]_vars => Valid' /\ AskedFirst'
  BY NextType, NextAsked
<1>3. Valid /\ AskedFirst => NoAssertionFails
  <2> SUFFICES ASSUME Valid, AskedFirst, stack # <<>> PROVE NoAssertionFails
    BY DEF NoAssertionFails
  <2>1. top \in Frame /\ FrameAsked(top, visited[engine], loadVar[engine])
    BY TopAsked DEF Valid
  <2>2. prog.kind[top.item.at.loc] = "store" => top.item.at.loc \in Mem
    BY <2>1, ItemParts, ProgramShape DEF Valid
  <2> QED
    BY <2>1, <2>2 DEF NoAssertionFails, FrameAsked, Marked, Has
<1> QED
  BY <1>1, <1>2, <1>3, PTL DEF Spec
-----------------------------------------------------------------------------
(***************************************************************************)
(* Answers against the solutions of the flow-sensitive equations.  What an *)
(* activation collects, waits for and looks for is compared with a         *)
(* solution s, whatever the call strings: an item of the solution names a  *)
(* node and, at a node of memory, an object.                               *)
(***************************************************************************)
Any(o) == [id |-> o, cxt |-> <<>>, conc |-> TRUE]
FlowOf(n, x) == [loc |-> n, cur |-> IF n \in Var THEN n ELSE Any(x), cxt |-> <<>>, conc |-> TRUE]
Asks(s, n, x) == FlowOf(n, x) \in s.items
Of(s, n, x) == Ids(ValuesAt(s.values, {FlowOf(n, x)}))

Solves(s) == SolvesFlow(Relaxed(prog), s)
ViewOf(s) == View(Relaxed(prog), s.calls, s.calls, "flow")
Graph(p, s) == EdgesOf(p, s.calls)
DemandsOf(s, i) == Demands(ViewOf(s), Graph(prog, s), i, s.values)

(* What the pointer operand of a load or a store points to.                *)
PointerTo(p, n) == IF p.kind[n] = "load" THEN p.src[n] ELSE p.dst[n]
Pointees(p, s, n) ==
  UNION {Of(s, g.src, g.src) : g \in {y \in Graph(p, s) : y.dst = n /\ ~y.ind /\ y.src = PointerTo(p, n)}}
Overwritten(s, n) == StrongUpdate(ViewOf(s), {Any(o) : o \in Pointees(prog, s, n)})

(* Only the objects that are never overwritten differ.                     *)
LEMMA RelaxedParts ==
  ASSUME prog \in Programs
  PROVE  LET p == Relaxed(prog) IN
         /\ p.kind = prog.kind /\ p.obj = prog.obj /\ p.field = prog.field
         /\ p.src = prog.src /\ p.dst = prog.dst /\ p.edges = prog.edges /\ p.icalls = prog.icalls
         /\ p.resolves = prog.resolves /\ p.calls = prog.calls /\ p.caller = prog.caller
         /\ p.local = prog.local /\ p.heap = prog.heap /\ p.opaque = prog.opaque
         /\ p.queries = prog.queries
         /\ p.weak = IF prog.engine = "cxt" THEN Obj ELSE prog.weak
<1>1. prog \in Program
  BY ProgramAssumption
<1> QED
  BY <1>1 DEF Relaxed, Program

(* The values of a solution have no context.                               *)
LEMMA OfParts ==
  ASSUME NEW s, Solves(s), NEW n, NEW x
  PROVE  /\ \A m \in s.values : m.to = Any(m.to.id) /\ m.to.id \in Obj
         /\ \A o : o \in Of(s, n, x) <=> \E m \in s.values : m.at = FlowOf(n, x) /\ m.to.id = o
<1>1. \A m \in s.values : m.to = Any(m.to.id) /\ m.to.id \in Obj
  BY DEF Solves, SolvesFlow, FlowVar, Any
<1> QED
  BY <1>1 DEF Of, Ids, ValuesAt

(* A solution has all that its items demand, and the calls and the roots.  *)
LEMMA SolutionParts ==
  ASSUME prog \in Programs, NEW s, Solves(s)
  PROVE  /\ \A i \in s.items :
              /\ FlowItem(i)
              /\ DemandsOf(s, i).base \subseteq s.items /\ DemandsOf(s, i).flow \subseteq s.items
              /\ \A c \in Value(Relaxed(prog), i, ValuesAt(s.values, DemandsOf(s, i).flow)) :
                   \E m \in s.values : m.at = i /\ m.to = c
         /\ \A c \in prog.icalls : c.target \in Of(s, c.fp, c.fp) => c.id \in s.calls
         /\ prog.calls \subseteq s.calls
         /\ \A v \in prog.queries : RootOf(v) \in s.items
<1> DEFINE p == Relaxed(prog)
           t == Round(p, "flow", s.items, s.values, s.calls)
           demands == [i \in s.items |-> DemandsOf(s, i)]
           more == s.values \union UNION {{[at |-> i, to |-> c] :
                     c \in Value(p, i, ValuesAt(s.values, demands[i].flow))} : i \in s.items}
<1>1. p.edges = prog.edges /\ p.icalls = prog.icalls /\ p.calls = prog.calls /\ p.queries = prog.queries
  BY RelaxedParts
<1>2. /\ \A i \in s.items : FlowItem(i)
      /\ t.items \subseteq s.items /\ t.values \subseteq s.values /\ t.calls \subseteq s.calls
      /\ Roots(p.queries) \subseteq s.items /\ p.calls \subseteq s.calls
  BY DEF Solves, SolvesFlow
<1>3. EdgesOf(p, s.calls) = Graph(prog, s)
  BY <1>1 DEF EdgesOf, Graph
<1>4. /\ t.items = s.items \union UNION {demands[i].base \union demands[i].flow : i \in s.items}
      /\ t.values = more
      /\ t.calls = s.calls \union {c.id : c \in {x \in p.icalls :
                            \E m \in more : m.at.loc = x.fp /\ m.to.id = x.target}}
  BY <1>3 DEF Round, DemandsOf, ViewOf
<1> HIDE DEF t, p
<1>5. ASSUME NEW i \in s.items
      PROVE  /\ DemandsOf(s, i).base \subseteq s.items /\ DemandsOf(s, i).flow \subseteq s.items
             /\ \A c \in Value(p, i, ValuesAt(s.values, DemandsOf(s, i).flow)) :
                   \E m \in s.values : m.at = i /\ m.to = c
  <2>1. demands[i] = DemandsOf(s, i)
    OBVIOUS
  <2>2. DemandsOf(s, i).base \subseteq s.items /\ DemandsOf(s, i).flow \subseteq s.items
    BY <1>2, <1>4, <2>1
  <2>3. ASSUME NEW c \in Value(p, i, ValuesAt(s.values, DemandsOf(s, i).flow))
        PROVE  [at |-> i, to |-> c] \in s.values
    <3> DEFINE V(j) == Value(p, j, ValuesAt(s.values, demands[j].flow))
    <3>1. c \in V(i)
      BY <2>1, <2>3
    <3>2. t.values = s.values \union UNION {{[at |-> j, to |-> d] : d \in V(j)} : j \in s.items}
      BY <1>4
    <3> HIDE DEF V
    <3>3. [at |-> i, to |-> c] \in t.values
      BY <3>1, <3>2
    <3> QED
      BY <1>2, <3>3
  <2> QED
    BY <2>2, <2>3
<1>6. \A c \in prog.icalls : c.target \in Of(s, c.fp, c.fp) => c.id \in s.calls
  <2> SUFFICES ASSUME NEW c \in prog.icalls, c.target \in Of(s, c.fp, c.fp)
               PROVE  c.id \in s.calls
    OBVIOUS
  <2>1. s.values \subseteq more
    OBVIOUS
  <2> HIDE DEF more
  <2>2. PICK m \in s.values : m.at = FlowOf(c.fp, c.fp) /\ m.to.id = c.target
    BY OfParts
  <2>3. m.at.loc = c.fp
    BY <2>2 DEF FlowOf
  <2> QED
    BY <1>1, <1>2, <1>4, <2>1, <2>2, <2>3
<1>7. \A v \in prog.queries : RootOf(v) \in s.items
  BY <1>1, <1>2 DEF Roots
<1> QED
  BY <1>1, <1>2, <1>5, <1>6, <1>7 DEF p

(* Without call strings every edge can be followed.                        *)
LEMMA ReachedFlow ==
  ASSUME NEW s, NEW n, NEW x, NEW G, NEW c
  PROVE  Reached(ViewOf(s), FlowOf(n, x), G, c)
           = {[loc |-> g.src, cur |-> IF g.ind THEN c ELSE g.src, cxt |-> <<>>, conc |-> TRUE] : g \in G}
<1> DEFINE w == ViewOf(s)
           i == FlowOf(n, x)
<1>1. w.by = "flow" /\ i.cxt = <<>> /\ i.conc = TRUE
  BY DEF ViewOf, View, FlowOf
<1> HIDE DEF w, i
<1>2. \A g : Feasible(w, i.cxt, g) /\ Context(w, i.cxt, g) = <<>> /\ Concrete(w, i.cxt, i.conc, g) = TRUE
  BY <1>1 DEF Feasible, Unbalanced, Repeated, Context, Concrete, Plain
<1>3. {g \in G : Feasible(w, i.cxt, g)} = G
  BY <1>2
<1> DEFINE L(g) == [loc |-> g.src, cur |-> IF g.ind THEN c ELSE g.src,
                    cxt |-> Context(w, i.cxt, g), conc |-> Concrete(w, i.cxt, i.conc, g)]
           R(g) == [loc |-> g.src, cur |-> IF g.ind THEN c ELSE g.src, cxt |-> <<>>, conc |-> TRUE]
<1>4. \A g : L(g) = R(g)
  BY <1>2
<1>5. Reached(w, i, G, c) = {L(g) : g \in {y \in G : Feasible(w, i.cxt, y)}}
  BY DEF Reached
<1> HIDE DEF L, R
<1>6. Reached(w, i, G, c) = {R(g) : g \in G}
  BY <1>3, <1>4, <1>5
<1> QED
  BY <1>6 DEF w, i, R

(* The edges of a solution, and the items behind them.                     *)
LEMMA GraphType ==
  ASSUME prog \in Programs, NEW s, NEW g \in Graph(prog, s)
  PROVE  /\ g \in Edge /\ g.src \in Node /\ g.dst \in Node
         /\ g.ind => g.src \notin Var
         /\ ~g.ind => g.src \in Var
<1>1. g \in Edge
  BY ProgramParts DEF Graph, EdgesOf
<1> QED
  BY <1>1, NamesAssumption DEF Edge, Node

LEMMA BehindDirect ==
  ASSUME prog \in Programs, NEW s, NEW n, NEW x, NEW G \in SUBSET Graph(prog, s), NEW c,
         \A g \in G : ~g.ind
  PROVE  Reached(ViewOf(s), FlowOf(n, x), G, c) = {FlowOf(g.src, g.src) : g \in G}
<1> DEFINE L(g) == [loc |-> g.src, cur |-> IF g.ind THEN c ELSE g.src, cxt |-> <<>>, conc |-> TRUE]
<1>1. Reached(ViewOf(s), FlowOf(n, x), G, c) = {L(g) : g \in G}
  BY ReachedFlow
<1>2. \A g \in G : FlowOf(g.src, g.src) = L(g)
  BY GraphType DEF FlowOf
<1> HIDE DEF L
<1> QED
  BY <1>1, <1>2

LEMMA BehindIndirect ==
  ASSUME prog \in Programs, NEW s, NEW n, NEW x, NEW G \in SUBSET Graph(prog, s), NEW o,
         \A g \in G : g.ind
  PROVE  Reached(ViewOf(s), FlowOf(n, x), G, Any(o)) = {FlowOf(g.src, o) : g \in G}
<1> DEFINE L(g) == [loc |-> g.src, cur |-> IF g.ind THEN Any(o) ELSE g.src, cxt |-> <<>>, conc |-> TRUE]
<1>1. Reached(ViewOf(s), FlowOf(n, x), G, Any(o)) = {L(g) : g \in G}
  BY ReachedFlow
<1>2. \A g \in G : FlowOf(g.src, o) = L(g)
  BY GraphType DEF FlowOf
<1> HIDE DEF L
<1> QED
  BY <1>1, <1>2

(* Each pointee of a gep's operand has its field among the results.        *)
LEMMA GepPtsAll ==
  ASSUME NEW p, NEW n, NEW pts \in SUBSET CVar, NEW c \in pts
  PROVE  \E d \in GepPts(p, n, pts) : d.id = p.field[n][c.id]
<1> DEFINE fields == {[b EXCEPT !.id = p.field[n][b.id]] : b \in pts}
           f == [c EXCEPT !.id = p.field[n][c.id]]
           d == CHOOSE b \in fields : SameElement(f, b)
<1>1. f \in fields /\ f.id = p.field[n][c.id]
  BY DEF CVar
<1> HIDE DEF fields, f
<1>2. SameElement(f, d)
  BY <1>1 DEF SameElement
<1>3. d \in GepPts(p, n, pts)
  BY <1>1 DEF GepPts, fields
<1> QED
  BY <1>1, <1>2, <1>3 DEF SameElement

(* What flows to an item of a solution is an item of it, with values that  *)
(* the item has too.                                                       *)
LEMMA FlowMet ==
  ASSUME prog \in Programs, NEW s, Solves(s), NEW n \in Node, NEW x, Asks(s, n, x),
         NEW m, NEW y, FlowOf(m, y) \in DemandsOf(s, FlowOf(n, x)).flow
  PROVE  /\ Asks(s, m, y)
         /\ prog.kind[n] \notin {"addr", "gep"} => Of(s, m, y) \subseteq Of(s, n, x)
         /\ prog.kind[n] = "gep" => \A o \in Of(s, m, y) : prog.field[n][o] \in Of(s, n, x)
<1> DEFINE i == FlowOf(n, x)
           j == FlowOf(m, y)
           flow == ValuesAt(s.values, DemandsOf(s, i).flow)
           p == Relaxed(prog)
<1>1. i \in s.items /\ i.loc = n
  BY DEF Asks, FlowOf
<1>2. p.kind = prog.kind /\ p.field = prog.field
  BY RelaxedParts
<1>3. j \in s.items /\ \A c \in Value(p, i, flow) : \E b \in s.values : b.at = i /\ b.to = c
  BY <1>1, SolutionParts
<1>4. \A o \in Of(s, m, y) : Any(o) \in flow
  <2> SUFFICES ASSUME NEW o \in Of(s, m, y) PROVE Any(o) \in flow
    OBVIOUS
  <2>1. PICK b \in s.values : b.at = j /\ b.to.id = o
    BY OfParts
  <2>2. b.to = Any(o)
    BY <2>1, OfParts
  <2> QED
    BY <2>1, <2>2 DEF ValuesAt
<1>5. flow \in SUBSET CVar
  <2>1. \A o \in Obj : Any(o) \in CVar
    BY EmptyCxt DEF CVar, Any
  <2>2. \A m1 \in s.values : m1.to \in CVar
    BY <2>1, OfParts
  <2> QED
    BY <2>2 DEF ValuesAt
<1> HIDE DEF i, j, flow, p
<1>6. \A c \in Value(p, i, flow) : c.id \in Of(s, n, x)
  BY <1>3, OfParts DEF i
<1>7. ASSUME prog.kind[n] \notin {"addr", "gep"}, NEW o \in Of(s, m, y)
      PROVE  o \in Of(s, n, x)
  <2>1. Value(p, i, flow) = flow
    BY <1>1, <1>2, <1>7 DEF Value
  <2> QED
    BY <1>4, <1>6, <2>1 DEF Any
<1>8. ASSUME prog.kind[n] = "gep", NEW o \in Of(s, m, y)
      PROVE  prog.field[n][o] \in Of(s, n, x)
  <2>1. Value(p, i, flow) = GepPts(p, n, flow)
    BY <1>1, <1>2, <1>8 DEF Value
  <2>2. \E d \in GepPts(p, n, flow) : d.id = p.field[n][Any(o).id]
    BY <1>4, <1>5, GepPtsAll
  <2> QED
    BY <1>2, <1>6, <2>1, <2>2 DEF Any
<1> QED
  BY <1>3, <1>7, <1>8 DEF Asks, j

(* The value of an address.                                                *)
LEMMA AddrMet ==
  ASSUME prog \in Programs, NEW s, Solves(s), NEW n, NEW x, Asks(s, n, x), prog.kind[n] = "addr"
  PROVE  prog.obj[n] \in Of(s, n, x)
<1> DEFINE i == FlowOf(n, x)
<1>1. i \in s.items /\ i.loc = n
  BY DEF Asks, FlowOf
<1>2. Relaxed(prog).kind = prog.kind /\ Relaxed(prog).obj = prog.obj
  BY RelaxedParts
<1> HIDE DEF i
<1>3. \A c \in Value(Relaxed(prog), i, ValuesAt(s.values, DemandsOf(s, i).flow)) :
        \E b \in s.values : b.at = i /\ b.to = c
  BY <1>1, SolutionParts
<1>4. [id |-> prog.obj[n], cxt |-> i.cxt, conc |-> i.conc]
        \in Value(Relaxed(prog), i, ValuesAt(s.values, DemandsOf(s, i).flow))
  BY <1>1, <1>2 DEF Value
<1> QED
  BY <1>3, <1>4, OfParts DEF i

(* What an item at a load or a store asks of the pointer operand.          *)
LEMMA PointerMet ==
  ASSUME prog \in Programs, NEW s, Solves(s), NEW n, NEW x, Asks(s, n, x),
         prog.kind[n] \in {"load", "store"}
  PROVE  /\ \A g \in Graph(prog, s) : g.dst = n /\ ~g.ind /\ g.src = PointerTo(prog, n)
              => Asks(s, g.src, g.src) /\ Of(s, g.src, g.src) \subseteq Pointees(prog, s, n)
         /\ ValuesAt(s.values, Pointer(ViewOf(s), Graph(prog, s), FlowOf(n, x)))
              = {Any(o) : o \in Pointees(prog, s, n)}
<1> DEFINE i == FlowOf(n, x)
           w == ViewOf(s)
           G == {g \in Graph(prog, s) : g.dst = n /\ ~g.ind /\ g.src = PointerTo(prog, n)}
           P == Pointer(w, Graph(prog, s), i)
<1>1. i \in s.items /\ i.loc = n
  BY DEF Asks, FlowOf
<1>2. w.prog = Relaxed(prog) /\ w.prog.kind = prog.kind /\ w.prog.src = prog.src /\ w.prog.dst = prog.dst
  BY RelaxedParts DEF ViewOf, View
<1>3. P = Operand(w, Graph(prog, s), i, PointerTo(prog, n))
  <2> HIDE DEF w, i
  <2> QED
    BY <1>1, <1>2 DEF Pointer, PointerTo
<1>4. P = Reached(w, i, G, None)
  <2> HIDE DEF w, P
  <2> QED
    BY <1>1, <1>3 DEF Operand
<1>5. P = {FlowOf(g.src, g.src) : g \in G}
  <2>1. G \in SUBSET Graph(prog, s) /\ \A g \in G : ~g.ind
    OBVIOUS
  <2> HIDE DEF P, G
  <2> QED
    BY <1>4, <2>1, BehindDirect
<1>6. P \subseteq s.items
  <2>1. P \subseteq DemandsOf(s, i).base
    BY DEF DemandsOf, Demands
  <2> QED
    BY <1>1, <2>1, SolutionParts
<1> HIDE DEF P
<1>7. \A g \in G : Asks(s, g.src, g.src) /\ Of(s, g.src, g.src) \subseteq Pointees(prog, s, n)
  BY <1>5, <1>6 DEF Asks, Pointees
<1>8. ValuesAt(s.values, P) = {Any(o) : o \in Pointees(prog, s, n)}
  <2>1. ASSUME NEW b \in s.values, b.at \in P
        PROVE  \E o \in Pointees(prog, s, n) : b.to = Any(o)
    <3>1. PICK g \in G : b.at = FlowOf(g.src, g.src)
      BY <1>5, <2>1
    <3>2. b.to.id \in Of(s, g.src, g.src) /\ b.to = Any(b.to.id)
      BY <3>1, OfParts
    <3> QED
      BY <1>7, <3>2
  <2>2. ASSUME NEW o \in Pointees(prog, s, n)
        PROVE  \E b \in s.values : b.at \in P /\ b.to = Any(o)
    <3>1. PICK g \in G : o \in Of(s, g.src, g.src)
      BY DEF Pointees
    <3>2. PICK b \in s.values : b.at = FlowOf(g.src, g.src) /\ b.to.id = o
      BY <3>1, OfParts
    <3> QED
      BY <1>5, <3>2, OfParts
  <2> QED
    BY <2>1, <2>2 DEF ValuesAt
<1> QED
  BY <1>7, <1>8 DEF P

(* What a statement may collect for an item.                               *)
Bound(p, s, n, x) == IF p.kind[n] = "gep" THEN {o \in Obj : p.field[n][o] \in Of(s, n, x)} ELSE Of(s, n, x)
Leads(s, n, x, m, y) == Asks(s, m, y) /\ Of(s, m, y) \subseteq Bound(prog, s, n, x)
Passes(n, o) == {g \in Edge : g.dst = n /\ g.ind /\ o \in g.guard /\ o \notin prog.opaque}

LEMMA FlowLeads ==
  ASSUME prog \in Programs, NEW s, Solves(s), NEW n \in Node, NEW x, Asks(s, n, x), prog.kind[n] # "addr",
         NEW m, NEW y, FlowOf(m, y) \in DemandsOf(s, FlowOf(n, x)).flow
  PROVE  Leads(s, n, x, m, y)
<1>1. \A o \in Of(s, m, y) : o \in Obj
  BY OfParts
<1> QED
  BY <1>1, FlowMet DEF Leads, Bound

(* A copy or a gep, and what flows to it.                                  *)
LEMMA CopyLeads ==
  ASSUME prog \in Programs, NEW s, Solves(s), NEW n \in Node, NEW x, Asks(s, n, x),
         prog.kind[n] \in {"copy", "gep"}, NEW g \in Graph(prog, s), g.dst = n, ~g.ind
  PROVE  Leads(s, n, x, g.src, g.src)
<1> DEFINE i == FlowOf(n, x)
           G == {y \in Graph(prog, s) : y.dst = n /\ ~y.ind}
           w == ViewOf(s)
<1>1. w.prog.kind = prog.kind /\ i.loc = n
  BY RelaxedParts DEF ViewOf, View, FlowOf
<1>2. DemandsOf(s, i).flow = Reached(w, i, G, None)
  <2> HIDE DEF i, w
  <2> QED
    BY <1>1 DEF DemandsOf, Demands, w
<1>3. G \in SUBSET Graph(prog, s) /\ (\A y \in G : ~y.ind) /\ g \in G
  OBVIOUS
<1> HIDE DEF G
<1>4. FlowOf(g.src, g.src) \in DemandsOf(s, i).flow
  BY <1>2, <1>3, BehindDirect
<1> QED
  BY <1>4, FlowLeads

(* The memory that is looked up for an object.                             *)
LEMMA MemoryOf ==
  ASSUME prog \in Programs, NEW s, NEW n, NEW x, NEW o
  PROVE  Memory(ViewOf(s), Graph(prog, s), FlowOf(n, x), Any(o))
           = {FlowOf(g.src, o) : g \in Graph(prog, s) \intersect Passes(n, o)}
<1> DEFINE i == FlowOf(n, x)
           w == ViewOf(s)
           G == {g \in Graph(prog, s) : /\ g.dst = i.loc /\ g.ind /\ Any(o).id \in g.guard
                                  /\ Any(o).id \notin w.prog.opaque}
<1>1. w.prog.opaque = prog.opaque /\ i.loc = n /\ Any(o).id = o
  BY RelaxedParts DEF ViewOf, View, FlowOf, Any
<1>2. Memory(w, Graph(prog, s), i, Any(o)) = Reached(w, i, G, Any(o))
  BY DEF Memory
<1>3. G = Graph(prog, s) \intersect Passes(n, o)
  <2> HIDE DEF w, i
  <2> QED
    BY <1>1, GraphType DEF Passes
<1>4. G \in SUBSET Graph(prog, s) /\ \A y \in G : y.ind
  OBVIOUS
<1> HIDE DEF G
<1>5. Reached(w, i, G, Any(o)) = {FlowOf(g.src, o) : g \in G}
  BY <1>4, BehindIndirect
<1> QED
  BY <1>2, <1>3, <1>5

(* A region of memory, and what flows to it for an object.                 *)
LEMMA RegionLeads ==
  ASSUME prog \in Programs, NEW s, Solves(s), NEW n \in Mem, NEW x, Asks(s, n, x),
         prog.kind[n] = "mr", NEW g \in Graph(prog, s), g \in Passes(n, x)
  PROVE  Leads(s, n, x, g.src, x)
<1> DEFINE i == FlowOf(n, x)
           w == ViewOf(s)
<1>1. w.prog.kind = prog.kind /\ i.loc = n /\ i.cur = Any(x) /\ n \in Node
  BY RelaxedParts, NamesAssumption DEF ViewOf, View, FlowOf, Node
<1>2. DemandsOf(s, i).flow = Memory(w, Graph(prog, s), i, Any(x))
  <2> HIDE DEF i, w
  <2> QED
    BY <1>1 DEF DemandsOf, Demands, w
<1>3. FlowOf(g.src, x) \in DemandsOf(s, i).flow
  BY <1>2, MemoryOf
<1> QED
  BY <1>1, <1>3, FlowLeads

(* A load, and what flows to it for each object its operand points to.     *)
LEMMA LoadLeads ==
  ASSUME prog \in Programs, NEW s, Solves(s), NEW n \in Node, NEW x, Asks(s, n, x),
         prog.kind[n] = "load", NEW o \in Pointees(prog, s, n), NEW g \in Graph(prog, s), g \in Passes(n, o)
  PROVE  Leads(s, n, x, g.src, o)
<1> DEFINE i == FlowOf(n, x)
           w == ViewOf(s)
           pts == ValuesAt(s.values, Pointer(w, Graph(prog, s), i))
<1>1. w.prog.kind = prog.kind /\ i.loc = n
  BY RelaxedParts DEF ViewOf, View, FlowOf
<1>2. DemandsOf(s, i).flow = UNION {Memory(w, Graph(prog, s), i, c) : c \in pts}
  <2> HIDE DEF i, w
  <2> QED
    BY <1>1 DEF DemandsOf, Demands, w
<1>3. Any(o) \in pts
  BY PointerMet
<1>4. FlowOf(g.src, o) \in Memory(w, Graph(prog, s), i, Any(o))
  BY MemoryOf
<1> HIDE DEF i, pts
<1>5. FlowOf(g.src, o) \in DemandsOf(s, i).flow
  BY <1>2, <1>3, <1>4
<1> QED
  BY <1>5, FlowLeads DEF i

(* A store, and what flows to it for an object: the stored value if the    *)
(* operand points to that object, and what was there before if it may be   *)
(* another one or is not overwritten.                                      *)
LEMMA StoreFlow ==
  ASSUME prog \in Programs, NEW s, Solves(s), NEW n \in Mem, NEW x, Asks(s, n, x),
         prog.kind[n] = "store", NEW o \in Pointees(prog, s, n)
  PROVE  /\ o = x => Operand(ViewOf(s), Graph(prog, s), FlowOf(n, x), prog.src[n])
                        \subseteq DemandsOf(s, FlowOf(n, x)).flow
         /\ o # x \/ ~Overwritten(s, n)
              => Memory(ViewOf(s), Graph(prog, s), FlowOf(n, x), Any(x))
                   \subseteq DemandsOf(s, FlowOf(n, x)).flow
<1> DEFINE i == FlowOf(n, x)
           w == ViewOf(s)
           E == Graph(prog, s)
           pts == ValuesAt(s.values, Pointer(w, E, i))
           One(c) == IF SameVar(w, c, i.cur)
                     THEN Operand(w, E, i, prog.src[n])
                            \union (IF StrongUpdate(w, pts) THEN {} ELSE Memory(w, E, i, c))
                     ELSE Memory(w, E, i, i.cur)
<1>1. w.prog.kind = prog.kind /\ w.prog.src = prog.src /\ w.by = "flow" /\ i.loc = n /\ i.cur = Any(x)
  BY RelaxedParts, NamesAssumption DEF ViewOf, View, FlowOf
<1>2. pts = {Any(y) : y \in Pointees(prog, s, n)}
  BY PointerMet
<1>3. StrongUpdate(w, pts) <=> Overwritten(s, n)
  BY <1>2 DEF Overwritten
<1>4. SameVar(w, Any(o), i.cur) <=> o = x
  <2> HIDE DEF w, i
  <2> QED
    BY <1>1 DEF SameVar, Any
<1>5. DemandsOf(s, i).flow = UNION {One(c) : c \in pts}
  <2> HIDE DEF i, w
  <2> QED
    BY <1>1 DEF DemandsOf, Demands, w
<1>6. Any(o) \in pts
  BY <1>2
<1>7. One(Any(o)) \subseteq DemandsOf(s, i).flow
  <2> HIDE DEF One, pts, i
  <2> QED
    BY <1>5, <1>6
<1>8. o = x => Operand(w, E, i, prog.src[n]) \subseteq One(Any(o))
  <2> HIDE DEF w, i, pts, E
  <2> QED
    BY <1>4
<1>9. o # x \/ ~Overwritten(s, n) => Memory(w, E, i, Any(x)) \subseteq One(Any(o))
  <2> HIDE DEF w, i, pts, E
  <2> QED
    BY <1>1, <1>3, <1>4
<1> HIDE DEF One, i, w, E
<1>10. /\ o = x => Operand(w, E, i, prog.src[n]) \subseteq DemandsOf(s, i).flow
       /\ o # x \/ ~Overwritten(s, n) => Memory(w, E, i, Any(x)) \subseteq DemandsOf(s, i).flow
  BY <1>7, <1>8, <1>9
<1> QED
  BY <1>10 DEF i, w, E

LEMMA StoreLeads ==
  ASSUME prog \in Programs, NEW s, Solves(s), NEW n \in Mem, NEW x, Asks(s, n, x),
         prog.kind[n] = "store", NEW o \in Pointees(prog, s, n)
  PROVE  /\ o = x => \A g \in Graph(prog, s) :
                        g.dst = n /\ ~g.ind /\ g.src = prog.src[n] => Leads(s, n, x, g.src, g.src)
         /\ o # x \/ ~Overwritten(s, n)
              => \A g \in Graph(prog, s) \intersect Passes(n, x) : Leads(s, n, x, g.src, x)
<1> DEFINE i == FlowOf(n, x)
           w == ViewOf(s)
           G == {y \in Graph(prog, s) : y.dst = i.loc /\ ~y.ind /\ y.src = prog.src[n]}
<1>1. i.loc = n /\ n \in Node
  BY DEF FlowOf, Node
<1>2. Operand(w, Graph(prog, s), i, prog.src[n]) = {FlowOf(g.src, g.src) : g \in G}
  <2>1. Operand(w, Graph(prog, s), i, prog.src[n]) = Reached(w, i, G, None)
    BY DEF Operand
  <2>2. G \in SUBSET Graph(prog, s) /\ \A y \in G : ~y.ind
    OBVIOUS
  <2> HIDE DEF G
  <2> QED
    BY <2>1, <2>2, BehindDirect
<1>3. ASSUME o = x, NEW g \in Graph(prog, s), g.dst = n, ~g.ind, g.src = prog.src[n]
      PROVE  Leads(s, n, x, g.src, g.src)
  <2>1. g \in G
    BY <1>1, <1>3
  <2> HIDE DEF G
  <2>2. FlowOf(g.src, g.src) \in DemandsOf(s, i).flow
    BY <1>2, <1>3, <2>1, StoreFlow
  <2> QED
    BY <1>1, <2>2, FlowLeads
<1>4. ASSUME o # x \/ ~Overwritten(s, n), NEW g \in Graph(prog, s) \intersect Passes(n, x)
      PROVE  Leads(s, n, x, g.src, x)
  <2>1. FlowOf(g.src, x) \in Memory(w, Graph(prog, s), i, Any(x))
    BY MemoryOf
  <2>2. FlowOf(g.src, x) \in DemandsOf(s, i).flow
    BY <1>4, <2>1, StoreFlow
  <2> QED
    BY <1>1, <2>2, FlowLeads
<1> QED
  BY <1>3, <1>4

(* The function pointers that a node resolves.                             *)
LEMMA ResolvesMet ==
  ASSUME prog \in Programs, NEW s, Solves(s), NEW n, NEW x, Asks(s, n, x),
         NEW v \in prog.resolves[n], v \in Var
  PROVE  Asks(s, v, v)
<1> DEFINE i == FlowOf(n, x)
           w == ViewOf(s)
<1>1. w.prog.resolves = prog.resolves /\ i.loc = n /\ i.cxt = <<>> /\ i.conc = TRUE /\ i \in s.items
  BY RelaxedParts DEF ViewOf, View, FlowOf, Asks
<1> HIDE DEF i, w
<1>2. [loc |-> v, cur |-> v, cxt |-> i.cxt, conc |-> i.conc] \in DemandsOf(s, i).base
  BY <1>1 DEF DemandsOf, Demands, w
<1>3. FlowOf(v, v) = [loc |-> v, cur |-> v, cxt |-> i.cxt, conc |-> i.conc]
  BY <1>1 DEF FlowOf
<1> QED
  BY <1>1, <1>2, <1>3, SolutionParts DEF Asks

(* Items for the variables asked for.                                      *)
LEMMA RootsMet ==
  ASSUME prog \in Programs, NEW s, Solves(s), NEW v \in prog.queries
  PROVE  Asks(s, v, v) /\ FlowOf(v, v) = RootOf(v)
<1>1. FlowOf(v, v) = RootOf(v)
  BY ProgramParts DEF FlowOf, RootOf
<1> QED
  BY <1>1, SolutionParts DEF Asks
-----------------------------------------------------------------------------
(* The inductive invariant: all that the analysis has found is part of the *)
(* solution.  It holds as long as FlowDDA has not fallen back on the       *)
(* pre-analysis.                                                           *)

KeyUnder(s, e, k) == Asks(s, k.loc, k.cur) /\ (e = "flow" => k.cxt = <<>>)

\* an activation can take the values S of a call it has pending
Takes(p, s, f, S) ==
  /\ f.into = "pts" => S \subseteq Bound(p, s, f.item.at.loc, f.item.at.cur)
  /\ f.into = "base" => S \subseteq Pointees(p, s, f.item.at.loc)
Behind(x) == IF x.edge.ind THEN x.from.cur ELSE x.edge.src
VisitUnder(p, s, f, x) ==
  Asks(s, x.edge.src, Behind(x)) /\ Takes(p, s, f, Of(s, x.edge.src, Behind(x)))

FrameUnder(p, s, e, f) ==
  /\ KeyUnder(s, e, f.item.at)
  /\ \A c \in f.pts : c.id \in Bound(p, s, f.item.at.loc, f.item.at.cur)
  /\ \A c \in f.base : c.id \in Pointees(p, s, f.item.at.loc)
  /\ e = "flow" => \A c \in f.pts \union f.base : c.cxt = <<>>
  /\ f.objs \subseteq f.base /\ (f.weak # None => f.weak \in f.base)
  /\ f.funs \subseteq p.resolves[f.item.at.loc]
  /\ \A x \in f.visits : VisitUnder(p, s, f, x)
  /\ \A i \in f.items : KeyUnder(s, e, i.at)

Awaits(p, s, st, k) == st # <<>> => Takes(p, s, st[Len(st)], Of(s, k.loc, k.cur))
StackUnder(p, s, e, st) ==
  /\ \A i \in 1..Len(st) : FrameUnder(p, s, e, st[i])
  /\ \A i \in 1..Len(st) :
       i < Len(st) => Takes(p, s, st[i], Of(s, st[i + 1].item.at.loc, st[i + 1].item.at.cur))

GraphUnder(p, s, E, C, S) ==
  \A e \in Engine : E[e] \subseteq Graph(p, s) /\ C[e] \subseteq s.calls /\ S[e] \subseteq s.calls
RecordUnder(s, R) == \A e \in Engine : \A i \in R[e] : KeyUnder(s, e, i.at)
ValueUnder(s, m) == m.to.id \in Of(s, m.at.loc, m.at.cur)
CacheUnder(s, C) ==
  \A e \in Engine : \A m \in C[e] : ValueUnder(s, m) /\ (e = "flow" => m.to.cxt = <<>>)

Under(s) ==
  /\ GraphUnder(prog, s, edges, called, sccCalls)
  /\ RecordUnder(s, recorded) /\ CacheUnder(s, cache)
  /\ \A m \in answers : ValueUnder(s, m)
  /\ StackUnder(prog, s, engine, stack)

(* Whose turn it is.                                                       *)
Turn ==
  /\ queries \subseteq prog.queries /\ (pc # "answered" => query \in prog.queries)
  /\ engine = "cxt" => prog.engine = "cxt"
Clean == beyond["flow"] = {} /\ ~(pc = "degrading" /\ engine = "flow")
-----------------------------------------------------------------------------
(* The stack.                                                              *)

LEMMA ElementUnder ==
  ASSUME NEW p, NEW s, NEW e, NEW st \in Seq(Frame), st # <<>>, StackUnder(p, s, e, st)
  PROVE  FrameUnder(p, s, e, st[Len(st)]) /\ st[Len(st)] \in Frame /\ Len(st) \in 1..Len(st)
<1>1. Len(st) \in 1..Len(st)
  BY EmptySeq, LenProperties
<1> QED
  BY <1>1, ElementOfSeq DEF StackUnder

(* A call on top of such a stack.                                          *)
LEMMA PushUnder ==
  ASSUME NEW p, NEW s, NEW e, NEW st \in Seq(Frame), StackUnder(p, s, e, st), NEW f \in Frame,
         FrameUnder(p, s, e, f), Awaits(p, s, st, f.item.at)
  PROVE  StackUnder(p, s, e, Append(st, f)) /\ Append(st, f) \in Seq(Frame)
<1> DEFINE new == Append(st, f)
<1>1. /\ new \in Seq(Frame) /\ Len(new) = Len(st) + 1 /\ Len(st) \in Nat
      /\ \A i \in 1..Len(st) : new[i] = st[i]
      /\ new[Len(st) + 1] = f
  BY AppendProperties, LenProperties
<1> HIDE DEF new
<1>2. ASSUME NEW i \in 1..Len(new) PROVE FrameUnder(p, s, e, new[i])
  BY <1>1, <1>2 DEF StackUnder
<1>3. ASSUME NEW i \in 1..Len(new), i < Len(new)
      PROVE  Takes(p, s, new[i], Of(s, new[i + 1].item.at.loc, new[i + 1].item.at.cur))
  <2>1. CASE i = Len(st)
    <3>1. st # <<>>
      BY <1>1, <1>3, <2>1, EmptySeq
    <3>2. new[i] = st[Len(st)] /\ new[i + 1] = f
      BY <1>1, <1>3, <2>1
    <3> QED
      BY <3>1, <3>2 DEF Awaits
  <2>2. CASE i # Len(st)
    <3>1. i \in 1..Len(st) /\ i < Len(st) /\ i + 1 \in 1..Len(st)
      BY <1>1, <1>3, <2>2
    <3> QED
      BY <1>1, <3>1 DEF StackUnder
  <2> QED
    BY <2>1, <2>2
<1> QED
  BY <1>1, <1>2, <1>3 DEF StackUnder, new

(* The two parts of the stack.                                             *)
LEMMA TopUnder ==
  ASSUME TypeOK, stack # <<>>, NEW p, NEW s, NEW e, StackUnder(p, s, e, stack)
  PROVE  /\ FrameUnder(p, s, e, top) /\ StackUnder(p, s, e, Below) /\ Awaits(p, s, Below, top.item.at)
         /\ top \in Frame /\ Below \in Seq(Frame)
<1> DEFINE n == Len(stack) - 1
<1>1. stack \in Seq(Frame) /\ n \in Nat /\ Len(stack) = n + 1
  BY TopType DEF TypeOK
<1>2. FrameUnder(p, s, e, top) /\ top \in Frame
  BY <1>1, ElementUnder DEF top
<1>3. Below \in Seq(Frame) /\ Len(Below) = n /\ \A i \in 1..n : Below[i] = stack[i]
  <2>1. \A i \in 1..n : stack[i] \in Frame
    BY <1>1, ElementOfSeq
  <2> QED
    BY <1>1, <2>1, SubSeqProperties DEF Below
<1>4. StackUnder(p, s, e, Below)
  <2>1. ASSUME NEW i \in 1..n PROVE FrameUnder(p, s, e, Below[i])
    BY <1>1, <1>3, <2>1 DEF StackUnder
  <2>2. ASSUME NEW i \in 1..n, i < n
        PROVE  Takes(p, s, Below[i], Of(s, Below[i + 1].item.at.loc, Below[i + 1].item.at.cur))
    <3>1. i \in 1..Len(stack) /\ i < Len(stack) /\ i + 1 \in 1..n
      BY <1>1, <2>2
    <3>2. Takes(p, s, stack[i], Of(s, stack[i + 1].item.at.loc, stack[i + 1].item.at.cur))
      BY <3>1 DEF StackUnder
    <3> QED
      BY <1>3, <3>1, <3>2
  <2> QED
    BY <1>3, <2>1, <2>2 DEF StackUnder
<1>5. Awaits(p, s, Below, top.item.at)
  <2> SUFFICES ASSUME Below # <<>> PROVE Takes(p, s, Below[n], Of(s, top.item.at.loc, top.item.at.cur))
    BY <1>3 DEF Awaits
  <2>1. n \in 1..n
    BY <1>1, <1>3, EmptySeq
  <2>2. n \in 1..Len(stack) /\ n < Len(stack) /\ n + 1 = Len(stack)
    BY <1>1, <2>1
  <2>3. Takes(p, s, stack[n], Of(s, stack[n + 1].item.at.loc, stack[n + 1].item.at.cur))
    BY <2>2 DEF StackUnder
  <2> QED
    BY <1>3, <2>1, <2>2, <2>3 DEF top
<1> QED
  BY <1>2, <1>3, <1>4, <1>5

(* A new top for the same item.                                            *)
LEMMA ReplaceUnder ==
  ASSUME TypeOK, stack # <<>>, NEW p, NEW s, NEW e, StackUnder(p, s, e, stack), NEW f \in Frame,
         FrameUnder(p, s, e, f), f.item = top.item
  PROVE  StackUnder(p, s, e, Replace(f)) /\ Replace(f) \in Seq(Frame)
<1>1. StackUnder(p, s, e, Below) /\ Awaits(p, s, Below, f.item.at) /\ Below \in Seq(Frame)
  BY TopUnder
<1> QED
  BY <1>1, PushUnder DEF Replace

(* What the new top waits for.                                             *)
LEMMA ReplaceAwaits ==
  ASSUME TypeOK, stack # <<>>, NEW p, NEW s, NEW f \in Frame, NEW k, Takes(p, s, f, Of(s, k.loc, k.cur))
  PROVE  Awaits(p, s, Replace(f), k)
<1>1. Below \in Seq(Frame)
  BY TopType
<1>2. Replace(f)[Len(Replace(f))] = f
  BY <1>1, AppendProperties DEF Replace
<1> QED
  BY <1>2 DEF Awaits

(* A call returns values of the solution.                                  *)
LEMMA GiveUnder ==
  ASSUME NEW p, NEW s, NEW e, NEW st \in Seq(Frame), StackUnder(p, s, e, st), NEW k, Awaits(p, s, st, k),
         NEW pts \in SUBSET CVar, \A c \in pts : c.id \in Of(s, k.loc, k.cur),
         e = "flow" => \A c \in pts : c.cxt = <<>>
  PROVE  StackUnder(p, s, e, Give(st, pts))
<1>1. CASE st = <<>>
  BY <1>1 DEF Give
<1>2. CASE st # <<>>
  <2> DEFINE f == st[Len(st)]
             new == CASE f.into = "pts" -> [f EXCEPT !.pts = UnionPts(@, pts)]
                      [] f.into = "base" -> [f EXCEPT !.base = UnionPts(@, pts)]
                      [] f.into = "none" -> f
             to == [st EXCEPT ![Len(st)] = new]
  <2>1. FrameUnder(p, s, e, f) /\ f \in Frame /\ Len(st) \in 1..Len(st) /\ Len(st) \in Nat
    BY <1>2, ElementUnder, LenProperties
  <2>2. f.into \in {"pts", "base", "none"}
    BY <2>1 DEF Frame
  <2>3. Takes(p, s, f, Of(s, k.loc, k.cur))
    BY <1>2 DEF Awaits
  <2> HIDE DEF f
  <2>4. new.item = f.item /\ new.into = f.into /\ new \in Frame
    <3>1. UnionPts(f.pts, pts) \in SUBSET CVar /\ UnionPts(f.base, pts) \in SUBSET CVar
      BY <2>1, UnionPtsSubset DEF Frame
    <3> QED
      BY <2>1, <2>2, <3>1 DEF Frame
  <2>5. /\ new.pts \subseteq f.pts \union pts /\ (f.into # "pts" => new.pts = f.pts)
        /\ new.base \subseteq f.base \union pts /\ (f.into # "base" => new.base = f.base)
        /\ f.base \subseteq new.base
    BY <2>1, <2>2, UnionPtsSubset DEF Frame
  <2>6. /\ new.weak = f.weak /\ new.visits = f.visits /\ new.items = f.items
        /\ new.objs = f.objs /\ new.funs = f.funs
    BY <2>1, <2>2 DEF Frame
  <2> HIDE DEF new
  <2>7. \A c \in new.pts : c.id \in Bound(p, s, f.item.at.loc, f.item.at.cur)
    BY <2>1, <2>3, <2>5 DEF FrameUnder, Takes
  <2>8. \A c \in new.base : c.id \in Pointees(p, s, f.item.at.loc)
    BY <2>1, <2>3, <2>5 DEF FrameUnder, Takes
  <2>9. e = "flow" => \A c \in new.pts \union new.base : c.cxt = <<>>
    BY <2>1, <2>5 DEF FrameUnder
  <2>10. \A x : VisitUnder(p, s, f, x) => VisitUnder(p, s, new, x)
    BY <2>4 DEF VisitUnder, Takes
  <2>11. FrameUnder(p, s, e, new)
    BY <2>1, <2>4, <2>5, <2>6, <2>7, <2>8, <2>9, <2>10 DEF FrameUnder
  <2>12. /\ Len(to) = Len(st)
         /\ \A j \in 1..Len(st) : to[j] = IF j = Len(st) THEN new ELSE st[j]
    BY <2>1, <2>4, ExceptSeq
  <2>13. Give(st, pts) = to
    BY <1>2 DEF Give, new, f
  <2> HIDE DEF to
  <2>14. ASSUME NEW i \in 1..Len(st) PROVE FrameUnder(p, s, e, to[i])
    <3>1. CASE i = Len(st)
      BY <2>11, <2>12, <3>1
    <3>2. CASE i # Len(st)
      BY <2>12, <3>2 DEF StackUnder
    <3> QED
      BY <3>1, <3>2
  <2>15. ASSUME NEW i \in 1..Len(st), i < Len(st)
         PROVE  Takes(p, s, to[i], Of(s, to[i + 1].item.at.loc, to[i + 1].item.at.cur))
    <3>1. i \in Nat /\ i + 1 \in 1..Len(st) /\ i # Len(st)
      BY <2>1, <2>15
    <3>2. to[i] = st[i]
      BY <2>12, <2>15, <3>1
    <3>3. to[i + 1].item = st[i + 1].item
      <4>1. CASE i + 1 = Len(st)
        BY <2>4, <2>12, <3>1, <4>1 DEF f
      <4>2. CASE i + 1 # Len(st)
        BY <2>12, <3>1, <4>2
      <4> QED
        BY <4>1, <4>2
    <3> QED
      BY <2>15, <3>1, <3>2, <3>3 DEF StackUnder
  <2> QED
    BY <2>12, <2>13, <2>14, <2>15 DEF StackUnder
<1> QED
  BY <1>1, <1>2

(* A call begins with nothing.                                             *)
LEMMA NewFrameUnder ==
  ASSUME NEW s, NEW e, NEW d, KeyUnder(s, e, d.at), NEW stage, NEW E
  PROVE  FrameUnder(prog, s, e, NewFrame(d, stage, E)) /\ NewFrame(d, stage, E).item = d
BY DEF NewFrame, FrameUnder

(* A node of memory is asked for an object.                                *)
LEMMA AsksParts ==
  ASSUME prog \in Programs, NEW s, Solves(s), NEW n \in Mem, NEW x, Asks(s, n, x)
  PROVE  x \in Obj /\ n \in Node
<1>1. FlowItem(FlowOf(n, x))
  BY SolutionParts DEF Asks
<1>2. n \notin Var /\ FlowOf(n, x).loc = n /\ FlowOf(n, x).cur = Any(x)
  BY NamesAssumption DEF FlowOf
<1>3. Any(x) \in FlowVar
  BY <1>1, <1>2 DEF FlowItem
<1> QED
  BY <1>3 DEF FlowVar, Any, Node

LEMMA CachedUnder ==
  ASSUME NEW s, Under(s), NEW e \in Engine, NEW k
  PROVE  \A c \in CachedPts(e, k) : c.id \in Of(s, k.loc, k.cur) /\ (e = "flow" => c.cxt = <<>>)
BY DEF Under, CacheUnder, ValueUnder, CachedPts

LEMMA FindPTUnder ==
  ASSUME Valid, NEW s, Under(s), NEW d \in Item, KeyUnder(s, engine, d.at), NEW vis,
         NEW st \in Seq(Frame), StackUnder(prog, s, engine, st), Awaits(prog, s, st, d.at),
         FindPT(d, vis, st)
  PROVE  StackUnder(prog, s, engine, stack') /\ RecordUnder(s, recorded')
<1>1. engine \in Engine
  BY DEF Valid, TypeOK
<1>2. RecordUnder(s, recorded')
  BY <1>1 DEF FindPT, Insert, RecordUnder, Under, Valid, TypeOK
<1>3. StackUnder(prog, s, engine, Give(st, CachedPts(engine, d.at)))
  BY <1>1, CachedUnder, CachedType, GiveUnder DEF Valid
<1>4. StackUnder(prog, s, engine, Append(st, NewFrame(d, "funptr", {})))
  <2>1. NewFrame(d, "funptr", {}) \in Frame
    BY NewFrameType DEF Valid, Stage
  <2>2. FrameUnder(prog, s, engine, NewFrame(d, "funptr", {})) /\ NewFrame(d, "funptr", {}).item = d
    BY NewFrameUnder
  <2> QED
    BY <2>1, <2>2, PushUnder
<1> QED
  BY <1>2, <1>3, <1>4 DEF FindPT

(* What a statement hands to its cache is in the solution, and so are the  *)
(* calls that its function pointer decides then.                           *)
LEMMA UpdateUnder ==
  ASSUME Valid, NEW s, Solves(s), Under(s), NEW e \in Engine, NEW d \in Item,
         KeyUnder(s, e, d.at), KeyFine(d.at), NEW pts \in SUBSET CVar,
         \A c \in pts : c.id \in Of(s, d.at.loc, d.at.cur) /\ (e = "flow" => c.cxt = <<>>),
         NEW st \in Seq(Frame), StackUnder(prog, s, e, st), Awaits(prog, s, st, d.at),
         UpdateCachedPointsTo(e, d, pts, st)
  PROVE  /\ StackUnder(prog, s, e, stack') /\ CacheUnder(s, cache')
         /\ GraphUnder(prog, s, edges', called', sccCalls')
<1> DEFINE old == CachedPts(e, d.at)
           all == UnionPts(old, pts)
           new == {c \in prog.icalls : /\ c.fp = d.at.cur /\ \E o \in all : o.id = c.target
                                       /\ c.id \notin called[e]}
           connected == UNION {c.edges : c \in new}
<1>1. /\ old \in SUBSET CVar
      /\ \A c \in old : c.id \in Of(s, d.at.loc, d.at.cur) /\ (e = "flow" => c.cxt = <<>>)
  BY CachedUnder, CachedType DEF Valid
<1>2. CASE all = old
  <2>1. StackUnder(prog, s, e, Give(st, old))
    BY <1>1, GiveUnder
  <2>2. stack' = Give(st, old) /\ UNCHANGED <<cache, edges, called, sccCalls>>
    BY <1>2 DEF UpdateCachedPointsTo, graph
  <2> QED
    BY <2>1, <2>2 DEF Under
<1>3. CASE all # old
  <2>1. \A c \in all : c.id \in Of(s, d.at.loc, d.at.cur) /\ (e = "flow" => c.cxt = <<>>)
    <3>1. all \subseteq old \union pts
      BY UnionPtsSubset
    <3> QED
      BY <1>1, <3>1
  <2>2. /\ cache' = [cache EXCEPT ![e] = @ \union {[at |-> d.at, to |-> c] : c \in all}]
        /\ edges' = [edges EXCEPT ![e] = @ \union connected]
        /\ called' = [called EXCEPT ![e] = @ \union {c.id : c \in new}]
        /\ sccCalls' = IF connected \subseteq edges[e] THEN sccCalls
                       ELSE [sccCalls EXCEPT ![e] = called'[e]]
        /\ stack' = Append(st, NewFrame(d, "new", connected \ edges[e]))
    BY <1>3 DEF UpdateCachedPointsTo
  <2>3. \A c \in new : c \in prog.icalls /\ c.fp = d.at.cur /\ c.target \in Of(s, d.at.loc, d.at.cur)
    BY <2>1
  <2> HIDE DEF old, all, new
  <2>4. \A c \in new : c.id \in s.calls
    <3> SUFFICES ASSUME NEW c \in new PROVE c.id \in s.calls
      OBVIOUS
    <3>1. c.fp \in Var /\ c.fp = d.at.cur /\ d.at.loc \in Node
      BY <2>3, ProgramParts DEF Valid, Item, Key
    <3>2. d.at.loc \in Var
      <4> SUFFICES ASSUME d.at.loc \in Mem PROVE FALSE
        BY <3>1 DEF Node
      <4>1. d.at.cur \in Obj
        BY AsksParts DEF KeyUnder, Valid
      <4> QED
        BY <3>1, <4>1, NamesAssumption
    <3>3. c.target \in Of(s, c.fp, c.fp)
      BY <2>3, <3>1, <3>2 DEF KeyFine
    <3> QED
      BY <2>3, <3>3, SolutionParts DEF Valid
  <2>5. connected \subseteq Graph(prog, s) /\ connected \in SUBSET Edge
    <3>1. \A c \in new : c.edges \subseteq Graph(prog, s) /\ c.edges \subseteq Edge
      BY <2>3, <2>4, ProgramParts DEF Graph, EdgesOf, Valid
    <3> QED
      BY <3>1
  <2> HIDE DEF connected
  <2>6. edges \in [Engine -> SUBSET Edge] /\ called \in [Engine -> SUBSET CallId]
        /\ sccCalls \in [Engine -> SUBSET CallId] /\ cache \in [Engine -> SUBSET [at : Key, to : CVar]]
    BY DEF Valid, TypeOK
  <2>7. GraphUnder(prog, s, edges', called', sccCalls')
    <3>1. GraphUnder(prog, s, edges, called, sccCalls)
      BY DEF Under
    <3>2. \A x \in Engine : called'[x] \subseteq s.calls /\ edges'[x] \subseteq Graph(prog, s)
      BY <2>2, <2>4, <2>5, <2>6, <3>1 DEF GraphUnder
    <3>3. \A x \in Engine : sccCalls'[x] \subseteq s.calls
      BY <2>2, <2>6, <3>1, <3>2 DEF GraphUnder
    <3> QED
      BY <3>2, <3>3 DEF GraphUnder
  <2>8. CacheUnder(s, cache')
    <3> DEFINE more == {[at |-> d.at, to |-> c] : c \in all}
    <3>1. \A m \in more : ValueUnder(s, m) /\ (e = "flow" => m.to.cxt = <<>>)
      BY <2>1 DEF ValueUnder
    <3>2. cache' = [cache EXCEPT ![e] = @ \union more]
      BY <2>2
    <3> HIDE DEF more
    <3>3. cache'[e] = cache[e] \union more /\ \A x \in Engine : x # e => cache'[x] = cache[x]
      BY <2>6, <3>2
    <3>4. CacheUnder(s, cache)
      BY DEF Under
    <3>5. ASSUME NEW x \in Engine, NEW m \in cache'[x]
          PROVE  ValueUnder(s, m) /\ (x = "flow" => m.to.cxt = <<>>)
      <4>1. m \in cache[x] \/ (x = e /\ m \in more)
        BY <3>3
      <4> QED
        BY <3>1, <3>4, <4>1 DEF CacheUnder
    <3> QED
      BY <3>5 DEF CacheUnder
  <2>9. NewFrame(d, "new", connected \ edges[e]) \in Frame
    BY <2>5, NewFrameType DEF Valid, Stage
  <2>10. StackUnder(prog, s, e, stack')
    <3> DEFINE f == NewFrame(d, "new", connected \ edges[e])
    <3>1. FrameUnder(prog, s, e, f) /\ f.item = d
      BY NewFrameUnder
    <3>2. f \in Frame /\ stack' = Append(st, f)
      BY <2>2, <2>9
    <3> HIDE DEF f
    <3> QED
      BY <3>1, <3>2, PushUnder
  <2> QED
    BY <2>7, <2>8, <2>10
<1> QED
  BY <1>2, <1>3

LEMMA ComputeUnder ==
  ASSUME Valid, NEW s, Solves(s), Under(s), NEW e \in Engine, NEW v \in prog.queries, ComputeDDAPts(e, v)
  PROVE  StackUnder(prog, s, e, stack') /\ RecordUnder(s, recorded') /\ engine' = e
<1> DEFINE root == ItemOf(v, <<>>, TRUE)
<1>1. v \in Var
  BY ProgramParts DEF Valid
<1>2. root \in Item /\ KeyUnder(s, e, root.at)
  BY <1>1, ItemOfType, EmptyCxt, RootsMet DEF ItemOf, KeyUnder, Valid
<1>3. stack' = <<>> \/ stack' = <<NewFrame(root, "funptr", {})>>
  BY DEF ComputeDDAPts
<1>4. recorded'[e] \subseteq {root} /\ \A x \in Engine : x # e => recorded'[x] = recorded[x]
  BY DEF ComputeDDAPts, Met, Valid, TypeOK
<1>5. FrameUnder(prog, s, e, NewFrame(root, "funptr", {}))
  BY <1>2, NewFrameUnder
<1> HIDE DEF root
<1>6. RecordUnder(s, recorded')
  BY <1>2, <1>4 DEF RecordUnder, Under
<1>7. StackUnder(prog, s, e, <<>>) /\ \A f : FrameUnder(prog, s, e, f) => StackUnder(prog, s, e, <<f>>)
  BY DEF StackUnder
<1>8. engine' = e
  BY DEF ComputeDDAPts
<1> QED
  BY <1>3, <1>5, <1>6, <1>7, <1>8

-----------------------------------------------------------------------------
(* The invariant, action by action.                                        *)

LEMMA InitUnder ==
  ASSUME Init, Valid, NEW s, Solves(s)
  PROVE  Under(s)
<1>1. GraphUnder(prog, s, edges, called, sccCalls)
  BY SolutionParts DEF Init, GraphUnder, Graph, EdgesOf, Valid
<1>2. StackUnder(prog, s, engine, stack)
  BY DEF Init, StackUnder
<1>3. RecordUnder(s, recorded) /\ CacheUnder(s, cache) /\ answers = {}
  BY DEF Init, RecordUnder, CacheUnder
<1> QED
  BY <1>1, <1>2, <1>3 DEF Under

LEMMA StartQueryUnder ==
  ASSUME Valid, Turn, NEW s, Solves(s), Under(s), NEW v \in queries, StartQuery(v)
  PROVE  Under(s)'
<1>1. v \in prog.queries /\ prog.engine \in Engine
  BY ProgramParts DEF Valid, Turn
<1>2. StackUnder(prog, s, engine', stack') /\ RecordUnder(s, recorded')
  BY <1>1, ComputeUnder DEF StartQuery
<1> QED
  BY <1>2 DEF StartQuery, Under, graph

LEMMA OnlyTopUnder ==
  ASSUME NEW s, Under(s), UNCHANGED onlyTop, StackUnder(prog, s, engine, stack')
  PROVE  Under(s)'
BY DEF Under, onlyTop, inQuery, graph

(* The edges a statement follows.                                          *)
LEMMA EdgesUnder ==
  ASSUME Valid, NEW s, Under(s), NEW k, NEW v
  PROVE  /\ \A x \in DirectVF(engine, k) :
              /\ x.edge \in Graph(prog, s) /\ x.edge.dst = k.loc /\ ~x.edge.ind /\ Behind(x) = x.edge.src
         /\ \A x \in OperandVF(engine, k, v) : x \in DirectVF(engine, k) /\ x.edge.src = v
         /\ \A x \in IndirectVF(engine, k) :
              /\ x.edge \in Graph(prog, s) \intersect Passes(k.loc, k.cur) /\ Behind(x) = k.cur
<1>1. engine \in Engine /\ edges[engine] \subseteq Edge
  BY DEF Valid, TypeOK
<1>2. edges[engine] \subseteq Graph(prog, s)
  BY <1>1 DEF Under, GraphUnder
<1> QED
  BY <1>1, <1>2 DEF DirectVF, OperandVF, IndirectVF, Passes, Behind

LEMMA ResolveFunPtrUnder ==
  ASSUME Valid, IInv, NEW s, Solves(s), Under(s), NEW v \in Var, ResolveFunPtr(v)
  PROVE  Under(s)'
<1> DEFINE f == [top EXCEPT !.funs = @ \ {v}]
           d == ItemOf(v, top.item.at.cxt, top.item.conc)
<1>1. /\ TypeOK /\ stack # <<>> /\ StackUnder(prog, s, engine, stack) /\ StackFine(prog, stack)
      /\ top.stage = "funptr"
  BY DEF ResolveFunPtr, Running, Valid, IInv, Under
<1>2. top \in Frame /\ FrameUnder(prog, s, engine, top) /\ top.into = "none" /\ v \in top.funs
  BY <1>1, TopUnder, TopFine DEF FrameFine, ResolveFunPtr
<1>3. Asks(s, v, v)
  BY <1>2, ResolvesMet DEF FrameUnder, KeyUnder, Valid
<1>4. d \in Item /\ KeyUnder(s, engine, d.at)
  BY <1>2, <1>3, ItemParts, ItemOfType DEF ItemOf, KeyUnder, FrameUnder
<1>5. f \in Frame /\ FrameUnder(prog, s, engine, f) /\ f.item = top.item /\ f.into = "none"
  BY <1>2 DEF Frame, FrameUnder, VisitUnder, Takes
<1>6. FindPT(d, visited[engine], Replace(f))
  BY DEF ResolveFunPtr
<1> HIDE DEF f, d
<1>7. StackUnder(prog, s, engine, Replace(f)) /\ Replace(f) \in Seq(Frame)
  BY <1>1, <1>5, ReplaceUnder
<1>8. Awaits(prog, s, Replace(f), d.at)
  BY <1>1, <1>5, ReplaceAwaits DEF Takes
<1>9. StackUnder(prog, s, engine, stack') /\ RecordUnder(s, recorded')
  BY <1>4, <1>6, <1>7, <1>8, FindPTUnder
<1> QED
  BY <1>9 DEF ResolveFunPtr, Under, inQuery, graph

LEMMA BeginStatementUnder ==
  ASSUME Valid, IInv, NEW s, Solves(s), Under(s), BeginStatement
  PROVE  Under(s)'
<1> DEFINE k == top.item.at
           n == k.loc
           kind == prog.kind[n]
<1>1. /\ TypeOK /\ stack # <<>> /\ StackUnder(prog, s, engine, stack) /\ StackFine(prog, stack)
      /\ top.stage = "funptr" /\ prog \in Programs
  BY DEF BeginStatement, Running, Valid, IInv, Under
<1>2. top \in Frame /\ FrameUnder(prog, s, engine, top) /\ top.into = "none"
  BY <1>1, TopUnder, TopFine DEF FrameFine
<1>3. k \in Key /\ n \in Node /\ Asks(s, n, k.cur) /\ (engine = "flow" => k.cxt = <<>>)
  BY <1>2, ItemParts DEF FrameUnder, KeyUnder
<1>4. \A v : /\ DirectVF(engine, k) \in SUBSET Visit /\ OperandVF(engine, k, v) \in SUBSET Visit
            /\ IndirectVF(engine, k) \in SUBSET Visit
  BY <1>3, VisitTypes
<1>5. kind \in {"addr", "copy", "gep", "load", "store", "mr"}
  BY <1>3, ProgramParts DEF Valid
<1> DEFINE Good(f) == f \in Frame /\ FrameUnder(prog, s, engine, f) /\ f.item = top.item
<1>6. ASSUME kind = "addr"
      PROVE  Good([top EXCEPT !.stage = "stmt",
                     !.pts = {[id |-> prog.obj[n], cxt |-> k.cxt, conc |-> top.item.conc]}])
  <2>1. n \in Var /\ prog.obj[n] \in Obj
    BY <1>3, <1>6, ProgramShape DEF Node, Valid
  <2>2. prog.obj[n] \in Bound(prog, s, n, k.cur)
    BY <1>1, <1>3, <1>6, AddrMet DEF Bound
  <2> DEFINE S == {[id |-> prog.obj[n], cxt |-> k.cxt, conc |-> top.item.conc]}
  <2>3. /\ S \in SUBSET CVar
        /\ \A c \in S : c.id \in Bound(prog, s, n, k.cur) /\ (engine = "flow" => c.cxt = <<>>)
    BY <1>2, <1>3, <2>1, <2>2, ItemParts DEF CVar
  <2> HIDE DEF S
  <2>4. [top EXCEPT !.stage = "stmt", !.pts = S] \in Frame
    BY <1>2, <2>3 DEF Frame, Stage
  <2>5. FrameUnder(prog, s, engine, [top EXCEPT !.stage = "stmt", !.pts = S])
    BY <1>2, <2>3 DEF Frame, FrameUnder, VisitUnder, Takes
  <2> QED
    BY <1>2, <2>4, <2>5 DEF S, Frame
<1>7. ASSUME NEW V \in SUBSET Visit, \A x \in V : Leads(s, n, k.cur, x.edge.src, Behind(x))
      PROVE  Good([top EXCEPT !.stage = "stmt", !.into = "pts", !.visits = V])
  BY <1>2, <1>7 DEF Frame, Stage, FrameUnder, VisitUnder, Takes, Leads
<1>8. ASSUME NEW V \in SUBSET Visit,
             \A x \in V : Asks(s, x.edge.src, x.edge.src) /\ Behind(x) = x.edge.src
                          /\ Of(s, x.edge.src, x.edge.src) \subseteq Pointees(prog, s, n)
      PROVE  Good([top EXCEPT !.stage = "base", !.into = "base", !.visits = V])
  BY <1>2, <1>8 DEF Frame, Stage, FrameUnder, VisitUnder, Takes
<1>9. ASSUME kind \in {"copy", "gep"}, NEW x \in DirectVF(engine, k)
      PROVE  Leads(s, n, k.cur, x.edge.src, Behind(x))
  BY <1>1, <1>3, <1>9, EdgesUnder, CopyLeads
<1>10. ASSUME kind = "mr", NEW x \in IndirectVF(engine, k)
       PROVE  Leads(s, n, k.cur, x.edge.src, Behind(x))
  <2>1. n \in Mem
    BY <1>3, <1>10, ProgramShape DEF Valid
  <2>2. x.edge \in Graph(prog, s) /\ x.edge \in Passes(n, k.cur) /\ Behind(x) = k.cur
    BY <1>10, EdgesUnder
  <2> QED
    BY <1>1, <1>3, <1>10, <2>1, <2>2, RegionLeads
<1>11. ASSUME kind \in {"load", "store"}, NEW x \in OperandVF(engine, k, PointerTo(prog, n))
       PROVE  /\ Asks(s, x.edge.src, x.edge.src) /\ Behind(x) = x.edge.src
              /\ Of(s, x.edge.src, x.edge.src) \subseteq Pointees(prog, s, n)
  BY <1>1, <1>3, <1>11, EdgesUnder, PointerMet
<1> HIDE DEF k, n, kind, Good
<1>13. PICK f : Good(f) /\ stack' = Replace(f)
  <2>1. CASE kind = "addr"
    BY <1>6, <2>1 DEF BeginStatement, k, n, kind
  <2>2. CASE kind \in {"copy", "gep"}
    <3>1. Good([top EXCEPT !.stage = "stmt", !.into = "pts", !.visits = DirectVF(engine, k)])
      BY <1>4, <1>7, <1>9, <2>2
    <3> QED
      BY <2>2, <3>1 DEF BeginStatement, k, n, kind
  <2>3. CASE kind = "mr"
    <3>1. Good([top EXCEPT !.stage = "stmt", !.into = "pts", !.visits = IndirectVF(engine, k)])
      BY <1>4, <1>7, <1>10, <2>3
    <3> QED
      BY <2>3, <3>1 DEF BeginStatement, k, n, kind
  <2>4. CASE kind = "load"
    <3>1. Good([top EXCEPT !.stage = "base", !.into = "base",
                           !.visits = OperandVF(engine, k, PointerTo(prog, n))])
      BY <1>4, <1>8, <1>11, <2>4
    <3>2. PointerTo(prog, n) = prog.src[n]
      BY <2>4 DEF PointerTo, kind
    <3> QED
      BY <2>4, <3>1, <3>2 DEF BeginStatement, k, n, kind
  <2>5. CASE kind = "store"
    <3>1. Good([top EXCEPT !.stage = "base", !.into = "base",
                           !.visits = OperandVF(engine, k, PointerTo(prog, n))])
      BY <1>4, <1>8, <1>11, <2>5
    <3>2. PointerTo(prog, n) = prog.dst[n]
      BY <2>5 DEF PointerTo, kind
    <3> QED
      BY <2>5, <3>1, <3>2 DEF BeginStatement, k, n, kind
  <2> QED
    BY <1>5, <2>1, <2>2, <2>3, <2>4, <2>5
<1>14. StackUnder(prog, s, engine, stack')
  BY <1>1, <1>13, ReplaceUnder DEF Good
<1> QED
  BY <1>14, OnlyTopUnder DEF BeginStatement

LEMMA BackwardPropDpmUnder ==
  ASSUME Valid, NEW s, Solves(s), Under(s), stack # <<>>, NEW x \in top.visits, BackwardPropDpm(x)
  PROVE  Under(s)'
<1> DEFINE g == x.edge
           t == top.item.at.cxt
           d == [at |-> [loc |-> g.src, cur |-> IF g.ind THEN x.from.cur ELSE g.src,
                         cxt |-> Context(Now, t, g)],
                 conc |-> Concrete(Now, t, top.item.conc, g)]
           f == [top EXCEPT !.visits = @ \ {x}]
           rest == Replace(f)
<1>1. TypeOK /\ StackUnder(prog, s, engine, stack)
  BY DEF Valid, Under
<1>2. top \in Frame /\ FrameUnder(prog, s, engine, top)
  BY <1>1, TopUnder
<1>3. d \in Item /\ d.at.cur = Behind(x) /\ d.at.loc = g.src
  BY <1>2, SourceType DEF Behind
<1>4. VisitUnder(prog, s, top, x)
  BY <1>2 DEF FrameUnder
<1>5. engine = "flow" => d.at.cxt = <<>>
  <2>1. engine = "flow" => Plain(Now, g)
    BY DEF Plain, Now, View
  <2> QED
    BY <1>2, <2>1 DEF Context, FrameUnder, KeyUnder
<1>6. KeyUnder(s, engine, d.at)
  BY <1>3, <1>4, <1>5 DEF KeyUnder, VisitUnder
<1>7. f \in Frame /\ FrameUnder(prog, s, engine, f) /\ f.item = top.item /\ f.into = top.into
  BY <1>2 DEF Frame, FrameUnder, VisitUnder, Takes
<1>8. Takes(prog, s, f, Of(s, d.at.loc, d.at.cur))
  BY <1>3, <1>4, <1>7 DEF VisitUnder, Takes
<1> HIDE DEF d, f, g, t
<1>9. StackUnder(prog, s, engine, rest) /\ rest \in Seq(Frame)
  BY <1>1, <1>7, ReplaceUnder
<1>10. Awaits(prog, s, rest, d.at)
  BY <1>1, <1>7, <1>8, ReplaceAwaits
<1>11. UNCHANGED <<inQuery, cache, graph>>
  BY DEF BackwardPropDpm
<1>12. StackUnder(prog, s, engine, stack') /\ RecordUnder(s, recorded')
  <2>1. CASE FindPT(d, visited[engine], rest)
    BY <1>3, <1>6, <1>9, <1>10, <2>1, FindPTUnder
  <2>2. CASE stack' = rest /\ UNCHANGED recorded
    BY <1>9, <2>2 DEF Under
  <2> QED
    BY <2>1, <2>2 DEF BackwardPropDpm, d, f, g, t
<1> QED
  BY <1>11, <1>12 DEF Under, inQuery, graph

LEMMA BaseDoneUnder ==
  ASSUME Valid, NEW s, Under(s), BaseDone
  PROVE  Under(s)'
<1> DEFINE f == [top EXCEPT !.stage = "stmt", !.into = "pts", !.objs = top.base]
<1>1. TypeOK /\ stack # <<>> /\ StackUnder(prog, s, engine, stack) /\ top.visits = {}
  BY DEF BaseDone, Idle, Running, Valid, Under
<1>2. top \in Frame /\ FrameUnder(prog, s, engine, top)
  BY <1>1, TopUnder
<1>3. f \in Frame /\ FrameUnder(prog, s, engine, f) /\ f.item = top.item
  BY <1>1, <1>2 DEF Frame, Stage, FrameUnder
<1>4. StackUnder(prog, s, engine, stack')
  BY <1>1, <1>3, ReplaceUnder DEF BaseDone
<1> QED
  BY <1>4, OnlyTopUnder DEF BaseDone

(* A statement that looks at what leads to its item.                       *)
LEMMA VisitsUnder ==
  ASSUME NEW s, NEW e, NEW f \in Frame, FrameUnder(prog, s, e, f), f.into # "base", NEW V \in SUBSET Visit,
         \A x \in V : Leads(s, f.item.at.loc, f.item.at.cur, x.edge.src, Behind(x))
  PROVE  /\ [f EXCEPT !.visits = V] \in Frame /\ FrameUnder(prog, s, e, [f EXCEPT !.visits = V])
         /\ [f EXCEPT !.visits = V].item = f.item
BY DEF Frame, FrameUnder, VisitUnder, Takes, Leads

LEMMA RestUnder ==
  ASSUME Valid, NEW s, Under(s), stack # <<>>, NEW c \in top.objs
  PROVE  /\ Rest(c) \in Frame /\ FrameUnder(prog, s, engine, Rest(c))
         /\ Rest(c).item = top.item /\ Rest(c).into = top.into /\ Rest(c).base = top.base
         /\ c.id \in Pointees(prog, s, top.item.at.loc) /\ c \in CVar /\ c \in top.base
<1>1. top \in Frame /\ FrameUnder(prog, s, engine, top)
  BY TopUnder DEF Valid, Under
<1>2. Rest(c) \in Frame
  BY <1>1 DEF Rest, Frame
<1>3. FrameUnder(prog, s, engine, Rest(c))
  BY <1>1 DEF Rest, Frame, FrameUnder, VisitUnder, Takes
<1>4. Rest(c).item = top.item /\ Rest(c).into = top.into /\ Rest(c).base = top.base
  BY <1>1 DEF Rest, Frame
<1>5. c.id \in Pointees(prog, s, top.item.at.loc) /\ c \in CVar /\ c \in top.base
  BY <1>1 DEF Frame, FrameUnder
<1> QED
  BY <1>2, <1>3, <1>4, <1>5

LEMMA LoadObjectUnder ==
  ASSUME Valid, IInv, NEW s, Solves(s), Under(s), stack # <<>>, NEW c \in top.objs, LoadObject(c)
  PROVE  Under(s)'
<1> DEFINE k == ObjKey(top.item.at, c)
           n == top.item.at.loc
           f == [Rest(c) EXCEPT !.visits = IndirectVF(engine, k)]
<1>1. /\ TypeOK /\ StackUnder(prog, s, engine, stack) /\ StackFine(prog, stack) /\ prog \in Programs
      /\ top.stage = "stmt" /\ prog.kind[n] = "load"
  BY DEF LoadObject, Idle, Running, Valid, IInv, Under
<1>2. top \in Frame /\ FrameUnder(prog, s, engine, top) /\ top.into # "base" /\ top.item.at \in Key
  BY <1>1, TopUnder, TopFine, ItemParts DEF FrameFine
<1>3. n \in Node /\ Asks(s, n, top.item.at.cur)
  BY <1>2, ItemParts DEF FrameUnder, KeyUnder
<1>4. /\ Rest(c) \in Frame /\ FrameUnder(prog, s, engine, Rest(c))
      /\ Rest(c).item = top.item /\ Rest(c).into = top.into
      /\ c.id \in Pointees(prog, s, n) /\ c.id \in Obj
  BY RestUnder DEF CVar
<1>5. k \in Key /\ k.cur = c.id /\ k.loc = n
  BY <1>2, <1>4 DEF ObjKey, Key
<1>6. /\ IndirectVF(engine, k) \in SUBSET Visit
      /\ \A x \in IndirectVF(engine, k) : Leads(s, n, top.item.at.cur, x.edge.src, Behind(x))
  BY <1>1, <1>3, <1>4, <1>5, VisitTypes, EdgesUnder, LoadLeads
<1>7. f \in Frame /\ FrameUnder(prog, s, engine, f) /\ f.item = top.item
  BY <1>2, <1>4, <1>6, VisitsUnder
<1> HIDE DEF f, k
<1>8. StackUnder(prog, s, engine, stack')
  BY <1>1, <1>7, ReplaceUnder DEF LoadObject, f, k
<1> QED
  BY <1>8, OnlyTopUnder DEF LoadObject

(* The more calls are known, the more functions are recursive.             *)
LEMMA MoreRecursion ==
  ASSUME NEW v, NEW w, w.prog.caller = v.prog.caller, w.prog.local = v.prog.local,
         v.called \subseteq w.called, v.scc \subseteq w.scc, NEW o, LocalInRecursion(v, o)
  PROVE  LocalInRecursion(w, o)
<1>1. /\ CallPairs(v.prog, v.scc) \subseteq CallPairs(w.prog, w.scc)
      /\ CallPairs(v.prog, v.called) \subseteq CallPairs(w.prog, w.called)
  BY DEF CallPairs
<1>2. ASSUME NEW f, NEW g, SameSCC(v, f, g)
      PROVE  SameSCC(w, f, g)
  BY <1>1, <1>2 DEF SameSCC
<1>3. \A f : InCycle(v, f) => InCycle(w, f)
  BY <1>1, <1>2 DEF InCycle
<1> QED
  BY <1>3 DEF LocalInRecursion

LEMMA RecursionGrows ==
  ASSUME prog \in Programs, NEW s, NEW C, NEW S, NEW e, NEW o, C \subseteq s.calls, S \subseteq s.calls,
         LocalInRecursion(View(prog, C, S, e), o)
  PROVE  LocalInRecursion(ViewOf(s), o)
<1> DEFINE v == View(prog, C, S, e)
           w == ViewOf(s)
<1>1. /\ v.prog = prog /\ v.called = C /\ v.scc = S
      /\ w.prog.caller = prog.caller /\ w.prog.local = prog.local /\ w.called = s.calls /\ w.scc = s.calls
  BY RelaxedParts DEF View, ViewOf
<1>2. LocalInRecursion(v, o)
  OBVIOUS
<1> HIDE DEF v, w
<1>3. LocalInRecursion(w, o)
  BY <1>1, <1>2, MoreRecursion
<1> QED
  BY <1>3 DEF w

(* Where the solution overwrites an object, so does the analysis, as soon  *)
(* as its pointer operand points to anything.                              *)
LEMMA StrongKept ==
  ASSUME Valid, Turn, NEW s, Solves(s), Under(s), NEW n, Overwritten(s, n), NEW B \in SUBSET CVar, B # {},
         \A c \in B : c.id \in Pointees(prog, s, n) /\ (engine = "flow" => c.cxt = <<>>)
  PROVE  engine = "flow" /\ StrongUpdate(Now, B)
<1> DEFINE w == ViewOf(s)
           pts == {Any(o) : o \in Pointees(prog, s, n)}
<1>1. /\ w.prog.weak = (IF prog.engine = "cxt" THEN Obj ELSE prog.weak)
      /\ w.prog.heap = prog.heap /\ w.by = "flow"
  BY RelaxedParts DEF ViewOf, View, Valid
<1> HIDE DEF w
<1>2. PICK c \in pts : /\ \A d \in pts : SameElement(c, d)
                       /\ c.id \notin w.prog.weak /\ c.id \notin w.prog.heap /\ ~LocalInRecursion(w, c.id)
  BY <1>1 DEF Overwritten, StrongUpdate, w
<1>3. PICK o \in Pointees(prog, s, n) : c = Any(o)
  OBVIOUS
<1>4. \A x \in Pointees(prog, s, n) : x = o
  <2>1. \A x \in Pointees(prog, s, n) : SameElement(Any(o), Any(x))
    BY <1>2, <1>3
  <2> QED
    BY <2>1 DEF SameElement, Any
<1>5. c.id = o
  BY <1>3 DEF Any
<1>6. PICK b \in B : TRUE
  OBVIOUS
<1>7. b.id = o /\ o \in Obj
  BY <1>4, <1>6 DEF CVar
<1>8. prog.engine # "cxt" /\ o \notin prog.weak /\ o \notin prog.heap
  BY <1>1, <1>2, <1>5, <1>7
<1>9. engine = "flow"
  BY <1>8 DEF Turn, Valid, TypeOK, Engine
<1>10. ~LocalInRecursion(Now, o)
  <2>1. called[engine] \subseteq s.calls /\ sccCalls[engine] \subseteq s.calls
    BY DEF Under, GraphUnder, Valid, TypeOK
  <2>2. ~LocalInRecursion(ViewOf(s), o)
    BY <1>2, <1>5 DEF w
  <2> QED
    BY <2>1, <2>2, RecursionGrows DEF Now, Valid
<1>11. \A d \in B : SameElement(b, d)
  BY <1>4, <1>6, <1>9 DEF SameElement
<1>12. Now.prog = prog
  BY DEF Now, View
<1> QED
  BY <1>6, <1>7, <1>8, <1>9, <1>10, <1>11, <1>12 DEF StrongUpdate

LEMMA StoreObjectUnder ==
  ASSUME Valid, IInv, Turn, NEW s, Solves(s), Under(s), stack # <<>>, NEW c \in top.objs, StoreObject(c)
  PROVE  Under(s)'
<1> DEFINE k == top.item.at
           r == [Rest(c) EXCEPT !.weak = c]
           V == OperandVF(engine, k, prog.src[k.loc])
           W == IndirectVF(engine, k)
<1>1. /\ TypeOK /\ StackUnder(prog, s, engine, stack) /\ StackFine(prog, stack) /\ prog \in Programs
      /\ top.stage = "stmt" /\ prog.kind[k.loc] = "store"
  BY DEF StoreObject, Idle, Running, Valid, IInv, Under
<1>2. /\ top \in Frame /\ FrameUnder(prog, s, engine, top) /\ top.into # "base"
      /\ k \in Key /\ k.loc \in Node
  BY <1>1, TopUnder, TopFine, ItemParts DEF FrameFine
<1>3. k.loc \in Mem /\ Asks(s, k.loc, k.cur)
  BY <1>1, <1>2, ProgramShape DEF FrameUnder, KeyUnder, Valid
<1>4. /\ Rest(c) \in Frame /\ FrameUnder(prog, s, engine, Rest(c))
      /\ Rest(c).item = top.item /\ Rest(c).into = top.into /\ Rest(c).base = top.base
      /\ c.id \in Pointees(prog, s, k.loc) /\ c \in CVar /\ c \in top.base
  BY RestUnder
<1>5. PICK m \in loadVar[engine] :
        /\ m.at = k
        /\ \/ /\ SameVar(Now, c, m.var)
              /\ stack' = Replace([Rest(c) EXCEPT !.weak = c, !.visits = V])
           \/ /\ ~SameVar(Now, c, m.var)
              /\ stack' = Replace([Rest(c) EXCEPT !.visits = W])
  BY DEF StoreObject
<1>6. m.var.id = k.cur
  BY <1>5 DEF IInv, LoadVarFine, Valid, TypeOK
<1>7. ASSUME SameVar(Now, c, m.var), stack' = Replace([Rest(c) EXCEPT !.weak = c, !.visits = V])
      PROVE  StackUnder(prog, s, engine, stack')
  <2>1. c.id = k.cur
    BY <1>6, <1>7 DEF SameVar
  <2>2. r \in Frame /\ FrameUnder(prog, s, engine, r) /\ r.item = top.item /\ r.into # "base"
    BY <1>2, <1>4 DEF Frame, FrameUnder, VisitUnder, Takes
  <2>3. V \in SUBSET Visit /\ \A x \in V : Leads(s, k.loc, k.cur, x.edge.src, Behind(x))
    BY <1>1, <1>2, <1>3, <1>4, <2>1, VisitTypes, EdgesUnder, StoreLeads
  <2>4. [r EXCEPT !.visits = V] = [Rest(c) EXCEPT !.weak = c, !.visits = V]
    OBVIOUS
  <2> HIDE DEF r, V
  <2>5. [r EXCEPT !.visits = V] \in Frame /\ FrameUnder(prog, s, engine, [r EXCEPT !.visits = V])
        /\ [r EXCEPT !.visits = V].item = top.item
    BY <2>2, <2>3, VisitsUnder
  <2> QED
    BY <1>1, <1>7, <2>4, <2>5, ReplaceUnder
<1>8. ASSUME ~SameVar(Now, c, m.var), stack' = Replace([Rest(c) EXCEPT !.visits = W])
      PROVE  StackUnder(prog, s, engine, stack')
  <2>1. c.id # k.cur \/ ~Overwritten(s, k.loc)
    <3>1. SUFFICES ASSUME Overwritten(s, k.loc) PROVE c.id # m.var.id
      BY <1>6
    <3>2. \A b \in {c} : b.id \in Pointees(prog, s, k.loc) /\ (engine = "flow" => b.cxt = <<>>)
      BY <1>2, <1>4 DEF FrameUnder
    <3>3. {c} \in SUBSET CVar /\ {c} # {}
      BY <1>4
    <3>4. engine = "flow"
      BY <3>1, <3>2, <3>3, StrongKept
    <3> QED
      BY <1>8, <3>4 DEF SameVar, Now, View
  <2>2. W \in SUBSET Visit /\ \A x \in W : Leads(s, k.loc, k.cur, x.edge.src, Behind(x))
    BY <1>1, <1>2, <1>3, <1>4, <2>1, VisitTypes, EdgesUnder, StoreLeads
  <2> HIDE DEF W
  <2>3. /\ [Rest(c) EXCEPT !.visits = W] \in Frame
        /\ FrameUnder(prog, s, engine, [Rest(c) EXCEPT !.visits = W])
        /\ [Rest(c) EXCEPT !.visits = W].item = top.item
    BY <1>2, <1>4, <2>2, VisitsUnder
  <2> QED
    BY <1>1, <1>8, <2>3, ReplaceUnder
<1>9. StackUnder(prog, s, engine, stack')
  BY <1>5, <1>7, <1>8
<1> QED
  BY <1>9, OnlyTopUnder DEF StoreObject

LEMMA OldValuesUnder ==
  ASSUME Valid, IInv, Turn, NEW s, Solves(s), Under(s), OldValues
  PROVE  Under(s)'
<1> DEFINE k == top.item.at
           r == [top EXCEPT !.weak = None]
           W == IndirectVF(engine, k)
<1>1. /\ TypeOK /\ stack # <<>> /\ prog \in Programs
      /\ StackUnder(prog, s, engine, stack) /\ StackFine(prog, stack)
      /\ top.stage = "stmt" /\ top.weak # None
  BY DEF OldValues, Idle, Running, Valid, IInv, Under
<1>2. /\ top \in Frame /\ FrameUnder(prog, s, engine, top) /\ top.into # "base"
      /\ k \in Key /\ k.loc \in Node
      /\ top.weak.id = k.cur /\ prog.kind[k.loc] = "store"
  BY <1>1, TopUnder, TopFine, ItemParts DEF FrameFine
<1>3. k.loc \in Mem /\ Asks(s, k.loc, k.cur)
  BY <1>1, <1>2, ProgramShape DEF FrameUnder, KeyUnder
<1>4. /\ top.base \in SUBSET CVar /\ top.weak \in top.base /\ k.cur \in Pointees(prog, s, k.loc)
      /\ \A c \in top.base : c.id \in Pointees(prog, s, k.loc) /\ (engine = "flow" => c.cxt = <<>>)
  BY <1>1, <1>2 DEF Frame, FrameUnder
<1>5. r \in Frame /\ FrameUnder(prog, s, engine, r) /\ r.item = top.item /\ r.into # "base"
  BY <1>2 DEF Frame, FrameUnder, VisitUnder, Takes
<1>6. ASSUME stack' = Replace(r)
      PROVE  StackUnder(prog, s, engine, stack')
  BY <1>1, <1>5, <1>6, ReplaceUnder
<1>7. ASSUME ~StrongUpdate(Now, top.base), stack' = Replace([r EXCEPT !.visits = W])
      PROVE  StackUnder(prog, s, engine, stack')
  <2>1. ~Overwritten(s, k.loc)
    BY <1>4, <1>7, StrongKept
  <2>2. W \in SUBSET Visit
    BY <1>2, VisitTypes
  <2>3. \A x \in W : Leads(s, k.loc, k.cur, x.edge.src, Behind(x))
    <3>1. \A x \in W : x.edge \in Graph(prog, s) \intersect Passes(k.loc, k.cur) /\ Behind(x) = k.cur
      BY EdgesUnder
    <3> QED
      BY <1>1, <1>2, <1>3, <1>4, <2>1, <3>1, StoreLeads
  <2> HIDE DEF r, W
  <2>4. /\ [r EXCEPT !.visits = W] \in Frame /\ FrameUnder(prog, s, engine, [r EXCEPT !.visits = W])
        /\ [r EXCEPT !.visits = W].item = top.item
    BY <1>5, <2>2, <2>3, VisitsUnder
  <2> QED
    BY <1>1, <1>7, <2>4, ReplaceUnder
<1>8. \/ stack' = Replace(r)
      \/ ~StrongUpdate(Now, top.base) /\ stack' = Replace([r EXCEPT !.visits = W])
  BY DEF OldValues
<1>9. StackUnder(prog, s, engine, stack')
  BY <1>6, <1>7, <1>8
<1> QED
  BY <1>9, OnlyTopUnder DEF OldValues

(* A gep keeps the call strings of what it is given.                       *)
LEMMA GepPtsCxt ==
  ASSUME NEW p, NEW n, NEW pts \in SUBSET CVar, NEW cxt, \A c \in pts : c.cxt = cxt
  PROVE  \A d \in GepPts(p, n, pts) : d.cxt = cxt
<1> DEFINE fields == {[c EXCEPT !.id = p.field[n][c.id]] : c \in pts}
<1>1. \A f \in fields : f.cxt = cxt
  BY DEF CVar
<1> HIDE DEF fields
<1>2. \A c \in fields : (CHOOSE d \in fields : SameElement(c, d)) \in fields
  BY DEF SameElement
<1>3. GepPts(p, n, pts) = {CHOOSE d \in fields : SameElement(c, d) : c \in fields}
  BY DEF GepPts, fields
<1> QED
  BY <1>1, <1>2, <1>3

LEMMA EndStatementUnder ==
  ASSUME Valid, IInv, NEW s, Solves(s), Under(s), EndStatement
  PROVE  Under(s)'
<1> DEFINE k == top.item.at
           pts == IF prog.kind[k.loc] = "gep" THEN GepPts(prog, k.loc, top.pts) ELSE top.pts
<1>1. /\ TypeOK /\ stack # <<>> /\ StackUnder(prog, s, engine, stack) /\ StackFine(prog, stack)
      /\ engine \in Engine /\ prog \in Programs
  BY DEF EndStatement, Idle, Running, Valid, TypeOK, IInv, Under
<1>2. /\ top \in Frame /\ FrameUnder(prog, s, engine, top)
      /\ top.item \in Item /\ k \in Key /\ k.loc \in Node
      /\ Below \in Seq(Frame) /\ StackUnder(prog, s, engine, Below) /\ Awaits(prog, s, Below, k)
      /\ KeyFine(k) /\ KeyUnder(s, engine, k)
  BY <1>1, TopUnder, TopFine, ItemParts DEF FrameFine, FrameUnder
<1>3. pts \in SUBSET CVar /\ top.pts \in SUBSET CVar
  BY <1>2, StatementPts DEF Frame
<1>4. \A c \in pts : c.id \in Of(s, k.loc, k.cur)
  <2>1. CASE prog.kind[k.loc] = "gep"
    <3>1. k.loc \in Var
      BY <1>2, <2>1, ProgramShape DEF Node, Valid
    <3>2. \A d \in GepPts(prog, k.loc, top.pts) :
            \E c \in top.pts : d.id = prog.field[k.loc][c.id]
      BY <1>1, <1>3, <3>1, GepPtsFrom
    <3>3. \A c \in top.pts : prog.field[k.loc][c.id] \in Of(s, k.loc, k.cur)
      BY <1>2, <2>1 DEF FrameUnder, Bound
    <3> QED
      BY <2>1, <3>2, <3>3
  <2>2. CASE prog.kind[k.loc] # "gep"
    BY <1>2, <2>2 DEF FrameUnder, Bound
  <2> QED
    BY <2>1, <2>2
<1>5. ASSUME engine = "flow" PROVE \A c \in pts : c.cxt = <<>>
  <2>1. \A c \in top.pts : c.cxt = <<>>
    BY <1>2, <1>5 DEF FrameUnder
  <2>2. \A c \in GepPts(prog, k.loc, top.pts) : c.cxt = <<>>
    BY <1>3, <2>1, GepPtsCxt
  <2> QED
    BY <2>1, <2>2
<1>6. UpdateCachedPointsTo(engine, top.item, pts, Below)
  BY DEF EndStatement
<1> HIDE DEF pts
<1>7. /\ StackUnder(prog, s, engine, stack') /\ CacheUnder(s, cache')
      /\ GraphUnder(prog, s, edges', called', sccCalls')
  BY <1>1, <1>2, <1>3, <1>4, <1>5, <1>6, UpdateUnder
<1> QED
  BY <1>7 DEF EndStatement, Under, inQuery

LEMMA NextEdgeUnder ==
  ASSUME Valid, NEW s, Under(s), stack # <<>>, NEW g \in top.edges, NextEdge(g)
  PROVE  Under(s)'
<1> DEFINE I == Affected(engine, top.item.at, g, top.stage = "new")
           f == [top EXCEPT !.edges = @ \ {g}, !.items = I]
<1>1. TypeOK /\ StackUnder(prog, s, engine, stack) /\ engine \in Engine
  BY DEF Valid, TypeOK, Under
<1>2. top \in Frame /\ FrameUnder(prog, s, engine, top)
  BY <1>1, TopUnder
<1>3. I \in SUBSET Item /\ \A i \in I : KeyUnder(s, engine, i.at)
  BY <1>1 DEF Affected, Under, RecordUnder, Valid, TypeOK
<1> HIDE DEF I
<1>4. f \in Frame /\ FrameUnder(prog, s, engine, f) /\ f.item = top.item
  BY <1>2, <1>3 DEF Frame, FrameUnder, VisitUnder, Takes
<1>5. StackUnder(prog, s, engine, stack')
  BY <1>1, <1>4, ReplaceUnder DEF NextEdge, I
<1> QED
  BY <1>5, OnlyTopUnder DEF NextEdge

LEMMA ReComputeUnder ==
  ASSUME Valid, IInv, NEW s, Under(s), stack # <<>>, NEW d \in top.items, ReCompute(d)
  PROVE  Under(s)'
<1> DEFINE f == [top EXCEPT !.items = @ \ {d}]
<1>1. /\ TypeOK /\ StackUnder(prog, s, engine, stack) /\ StackFine(prog, stack)
      /\ top.stage \in {"new", "out"}
  BY DEF ReCompute, Recomputing, Running, Valid, IInv, Under
<1>2. top \in Frame /\ FrameUnder(prog, s, engine, top) /\ top.into = "none"
  BY <1>1, TopUnder, TopFine DEF FrameFine
<1>3. d \in Item /\ KeyUnder(s, engine, d.at)
  BY <1>2 DEF Frame, FrameUnder
<1>4. f \in Frame /\ FrameUnder(prog, s, engine, f) /\ f.item = top.item /\ f.into = "none"
  BY <1>2 DEF Frame, FrameUnder, VisitUnder, Takes
<1>5. FindPT(d, visited[engine] \ {d.at}, Replace(f))
  BY DEF ReCompute
<1> HIDE DEF f
<1>6. StackUnder(prog, s, engine, Replace(f)) /\ Replace(f) \in Seq(Frame)
  BY <1>1, <1>4, ReplaceUnder
<1>7. Awaits(prog, s, Replace(f), d.at)
  BY <1>1, <1>4, ReplaceAwaits DEF Takes
<1>8. StackUnder(prog, s, engine, stack') /\ RecordUnder(s, recorded')
  BY <1>3, <1>5, <1>6, <1>7, FindPTUnder
<1> QED
  BY <1>8 DEF ReCompute, Under, inQuery, graph

LEMMA OutEdgesUnder ==
  ASSUME Valid, NEW s, Under(s), OutEdges
  PROVE  Under(s)'
<1> DEFINE E == {g \in edges[engine] : g.src = top.item.at.loc}
           f == [top EXCEPT !.stage = "out", !.edges = E]
<1>1. TypeOK /\ stack # <<>> /\ StackUnder(prog, s, engine, stack)
  BY DEF OutEdges, Running, Valid, Under
<1>2. top \in Frame /\ FrameUnder(prog, s, engine, top)
  BY <1>1, TopUnder
<1>3. E \in SUBSET Edge
  BY DEF Valid, TypeOK
<1> HIDE DEF E
<1>4. f \in Frame /\ FrameUnder(prog, s, engine, f) /\ f.item = top.item
  BY <1>2, <1>3 DEF Frame, Stage, FrameUnder, VisitUnder, Takes
<1>5. StackUnder(prog, s, engine, stack')
  BY <1>1, <1>4, ReplaceUnder DEF OutEdges, E
<1> QED
  BY <1>5, OnlyTopUnder DEF OutEdges

LEMMA ReturnUnder ==
  ASSUME Valid, NEW s, Under(s), Return
  PROVE  Under(s)'
<1>1. TypeOK /\ stack # <<>> /\ StackUnder(prog, s, engine, stack) /\ engine \in Engine
  BY DEF Return, Running, Valid, TypeOK, Under
<1>2. Below \in Seq(Frame) /\ StackUnder(prog, s, engine, Below) /\ Awaits(prog, s, Below, top.item.at)
  BY <1>1, TopUnder
<1>3. StackUnder(prog, s, engine, Give(Below, CachedPts(engine, top.item.at)))
  BY <1>1, <1>2, CachedUnder, CachedType, GiveUnder
<1>4. StackUnder(prog, s, engine, stack')
  BY <1>3 DEF Return
<1> QED
  BY <1>4, OnlyTopUnder DEF Return

(* The item that stands for the query.                                     *)
LEMMA RootUnder ==
  ASSUME Valid, Turn, pc # "answered", NEW s, Solves(s), Under(s)
  PROVE  /\ query \in prog.queries /\ Root \in Item /\ KeyFine(Root.at)
         /\ Root.at.loc = query /\ Root.at.cur = query
         /\ \A e \in Engine : KeyUnder(s, e, Root.at)
         /\ \A c \in FlowPts : c.id \in Of(s, query, query)
<1>1. query \in prog.queries /\ Root \in Item /\ KeyFine(Root.at)
  BY RootFine DEF Turn
<1>2. Root.at.loc = query /\ Root.at.cur = query /\ Root.at.cxt = <<>>
  BY DEF Root, ItemOf
<1>3. \A e \in Engine : KeyUnder(s, e, Root.at)
  BY <1>1, <1>2, RootsMet DEF KeyUnder, Valid
<1>4. \A c \in CachedPts("flow", Root.at) : c.id \in Of(s, query, query)
  BY <1>2, CachedUnder DEF Engine
<1> QED
  BY <1>1, <1>2, <1>3, <1>4, FlowPtsType

LEMMA AnswersUnder ==
  ASSUME NEW s, Under(s), NEW pts, Answers(pts), Root.at.loc = query, Root.at.cur = query,
         \A c \in pts : c.id \in Of(s, query, query)
  PROVE  \A m \in answers' : ValueUnder(s, m)
<1>1. \A m \in {[at |-> Root.at, to |-> c] : c \in pts} : ValueUnder(s, m)
  BY DEF ValueUnder
<1> QED
  BY <1>1 DEF Answers, Under

LEMMA AnswerInBudgetUnder ==
  ASSUME Valid, Turn, NEW s, Solves(s), Under(s), AnswerInBudget
  PROVE  Under(s)'
<1>1. pc # "answered" /\ UNCHANGED <<prog, engine, stack, cache, recorded, graph>>
  BY DEF AnswerInBudget
<1>2. Root.at.loc = query /\ Root.at.cur = query
  BY <1>1, RootUnder
<1>3. \A c \in CachedPts("cxt", Root.at) : c.id \in Of(s, query, query)
  BY <1>2, CachedUnder DEF Engine
<1>4. \A m \in answers' : ValueUnder(s, m)
  <2>1. CASE UNCHANGED answers
    BY <2>1 DEF Under
  <2>2. CASE Answers(CachedPts("cxt", Root.at))
    BY <1>2, <1>3, <2>2, AnswersUnder
  <2> QED
    BY <2>1, <2>2 DEF AnswerInBudget
<1> QED
  BY <1>1, <1>4 DEF Under, graph

LEMMA DowngradeUnder ==
  ASSUME Valid, Turn, NEW s, Solves(s), Under(s), Downgrade
  PROVE  Under(s)'
<1>1. query \in prog.queries /\ "flow" \in Engine /\ ComputeDDAPts("flow", query)
  BY DEF Downgrade, Turn, Engine
<1>2. StackUnder(prog, s, engine', stack') /\ RecordUnder(s, recorded')
  BY <1>1, ComputeUnder
<1> QED
  BY <1>2 DEF Downgrade, Under, graph

(* As long as the flow-sensitive analysis has its budget, its answer is    *)
(* all the context-sensitive one takes over.                               *)
LEMMA DegradeContextUnder ==
  ASSUME Valid, Turn, NEW s, Solves(s), Under(s), DegradeContext
  PROVE  Under(s)'
<1>1. /\ pc # "answered" /\ "cxt" \in Engine /\ engine' = "cxt" /\ stack = <<>>
      /\ UpdateCachedPointsTo("cxt", Root, FlowPts, <<>>) /\ UNCHANGED <<prog, recorded, answers>>
  BY DEF DegradeContext, Engine
<1>2. /\ Root \in Item /\ KeyFine(Root.at) /\ KeyUnder(s, "cxt", Root.at)
      /\ Root.at.loc = query /\ Root.at.cur = query
      /\ \A c \in FlowPts : c.id \in Of(s, Root.at.loc, Root.at.cur)
  BY <1>1, RootUnder
<1>3. FlowPts \in SUBSET CVar
  BY FlowPtsType
<1>4. <<>> \in Seq(Frame) /\ StackUnder(prog, s, "cxt", <<>>) /\ Awaits(prog, s, <<>>, Root.at)
  BY EmptySeq DEF StackUnder, Awaits
<1>5. /\ StackUnder(prog, s, "cxt", stack') /\ CacheUnder(s, cache')
      /\ GraphUnder(prog, s, edges', called', sccCalls')
  BY <1>1, <1>2, <1>3, <1>4, UpdateUnder
<1> QED
  BY <1>1, <1>5 DEF Under

LEMMA AnswerDegradedUnder ==
  ASSUME Valid, Turn, NEW s, Solves(s), Under(s), AnswerDegraded
  PROVE  Under(s)'
<1>1. pc # "answered" /\ UNCHANGED <<prog, engine, stack, cache, recorded, graph>>
  BY DEF AnswerDegraded
<1>2. Root.at.loc = query /\ Root.at.cur = query /\ \A c \in FlowPts : c.id \in Of(s, query, query)
  BY <1>1, RootUnder
<1>3. \A m \in answers' : ValueUnder(s, m)
  <2>1. CASE UNCHANGED answers
    BY <2>1 DEF Under
  <2>2. CASE Answers(FlowPts)
    BY <1>2, <2>2, AnswersUnder
  <2> QED
    BY <2>1, <2>2 DEF AnswerDegraded
<1> QED
  BY <1>1, <1>3 DEF Under, graph

-----------------------------------------------------------------------------
(* Any step.                                                               *)

LEMMA TurnNext ==
  ASSUME Valid, Turn, [Next]_vars
  PROVE  Turn' /\ prog' = prog
<1>1. CASE \E v \in queries : StartQuery(v)
  BY <1>1 DEF StartQuery, ComputeDDAPts, Turn
<1>2. CASE UNCHANGED <<prog, queries, query, engine, pc>>
  BY <1>2 DEF Turn
<1>3. CASE Statement \/ Recomputation
  <2>1. UNCHANGED inQuery
    BY <1>3 DEF Statement, Recomputation, ResolveFunPtr, BeginStatement, BackwardPropDpm, BaseDone,
       LoadObject, StoreObject, OldValues, EndStatement, NextEdge, ReCompute, OutEdges, Return, onlyTop
  <2> QED
    BY <1>2, <2>1 DEF inQuery
<1>4. CASE EndOfQuery
  BY <1>4 DEF EndOfQuery, AnswerInBudget, Downgrade, DegradeFlow, DegradeContext, AnswerDegraded,
     ComputeDDAPts, Turn
<1> QED
  BY <1>1, <1>2, <1>3, <1>4 DEF Next, Terminated, vars

(* Once FlowDDA has run out of budget this is never forgotten.             *)
LEMMA CleanBefore ==
  ASSUME Valid, [Next]_vars, Clean'
  PROVE  Clean
<1>1. CASE \E v \in queries : StartQuery(v)
  BY <1>1 DEF StartQuery, Clean
<1>2. CASE UNCHANGED <<engine, pc, beyond>>
  BY <1>2 DEF Clean
<1>3. CASE Statement \/ Recomputation
  <2>1. UNCHANGED inQuery
    BY <1>3 DEF Statement, Recomputation, ResolveFunPtr, BeginStatement, BackwardPropDpm, BaseDone,
       LoadObject, StoreObject, OldValues, EndStatement, NextEdge, ReCompute, OutEdges, Return, onlyTop
  <2> QED
    BY <1>2, <2>1 DEF inQuery
<1>4. CASE EndOfQuery
  <2>1. beyond \in [Engine -> SUBSET Key] /\ "flow" \in Engine /\ engine \in Engine
    BY DEF Valid, TypeOK, Engine
  <2>2. beyond'["flow"] = {}
    BY DEF Clean
  <2>3. CASE AnswerInBudget \/ Downgrade \/ DegradeFlow
    BY <2>3 DEF AnswerInBudget, Downgrade, DegradeFlow, ComputeDDAPts, Clean
  <2>4. CASE DegradeContext
    BY <2>1, <2>2, <2>4 DEF DegradeContext, Clean
  <2>5. CASE AnswerDegraded
    BY <2>1, <2>2, <2>5 DEF AnswerDegraded, Clean
  <2> QED
    BY <1>4, <2>3, <2>4, <2>5 DEF EndOfQuery
<1> QED
  BY <1>1, <1>2, <1>3, <1>4 DEF Next, Terminated, vars

LEMMA NextUnder ==
  ASSUME Valid, IInv, Turn, [Next]_vars, Clean', NEW s, Solves(s), Under(s)
  PROVE  Under(s)'
<1>1. CASE \E v \in queries : StartQuery(v)
  BY <1>1, StartQueryUnder
<1>2. CASE Statement
  BY <1>2, ResolveFunPtrUnder, BeginStatementUnder, BackwardPropDpmUnder, BaseDoneUnder,
     LoadObjectUnder, StoreObjectUnder, OldValuesUnder, EndStatementUnder DEF Statement
<1>3. CASE Recomputation
  BY <1>3, NextEdgeUnder, ReComputeUnder, OutEdgesUnder, ReturnUnder DEF Recomputation
<1>4. CASE EndOfQuery
  <2>1. ~DegradeFlow
    BY DEF DegradeFlow, Clean
  <2> QED
    BY <1>4, <2>1, AnswerInBudgetUnder, DowngradeUnder, DegradeContextUnder, AnswerDegradedUnder
       DEF EndOfQuery
<1>5. CASE UNCHANGED vars
  BY <1>5 DEF vars, graph, Under
<1> QED
  BY <1>1, <1>2, <1>3, <1>4, <1>5 DEF Next, Terminated

(* Every answer is part of what solves the equations.                      *)
LEMMA GivenUnder ==
  ASSUME Valid, NEW s, Solves(s), Under(s), NEW v \in Asked
  PROVE  Given(v) \subseteq Ids(ValuesAt(s.values, {RootOf(v)}))
<1> DEFINE k == ItemOf(v, <<>>, TRUE).at
<1>1. k.loc = v /\ k.cur = v
  BY DEF ItemOf
<1>2. Of(s, v, v) = Ids(ValuesAt(s.values, {RootOf(v)}))
  BY RootsMet DEF Of, Asked, Valid
<1>3. CASE prog.engine = "flow"
  <2>1. Given(v) = Ids(CachedPts("flow", k))
    BY <1>3 DEF Given
  <2> HIDE DEF k
  <2>2. \A c \in CachedPts("flow", k) : c.id \in Of(s, v, v)
    BY <1>1, CachedUnder DEF Engine
  <2> QED
    BY <1>2, <2>1, <2>2 DEF Ids
<1>4. CASE prog.engine # "flow"
  <2>1. Given(v) = {m.to.id : m \in {x \in answers : x.at = k}}
    BY <1>4 DEF Given
  <2> HIDE DEF k
  <2>2. \A m \in answers : m.at = k => m.to.id \in Of(s, v, v)
    BY <1>1 DEF Under, ValueUnder
  <2> QED
    BY <1>2, <2>1, <2>2
<1> QED
  BY <1>3, <1>4

UnderAll == Clean => \A s \in Candidates[prog] : Solves(s) => Under(s)

(* In every program, as long as the flow-sensitive analysis has not run    *)
(* out of budget, no answer is coarser than any solution of the            *)
(* flow-sensitive equations, hence than the least: not where stale values  *)
(* stayed in a cache, where recursion changed what a store overwrites, or  *)
(* where ContextDDA took over an answer of FlowDDA.                        *)
THEOREM AnswersRefine == Spec => []RefinesFlow
<1> DEFINE Inv == Valid /\ IInv /\ Turn /\ UnderAll
<1>1. Init => Inv
  <2> SUFFICES ASSUME Init PROVE Inv
    OBVIOUS
  <2>1. Valid /\ IInv
    BY InitType, InitFine
  <2>2. Turn
    BY DEF Init, Turn
  <2> QED
    BY <2>1, <2>2, InitUnder DEF UnderAll
<1>2. Inv /\ [Next]_vars => Inv'
  <2> SUFFICES ASSUME Inv, [Next]_vars PROVE Inv'
    OBVIOUS
  <2>1. Valid' /\ IInv' /\ Turn' /\ prog' = prog
    BY NextType, NextFine, TurnNext
  <2>2. ASSUME Clean', NEW s \in Candidates[prog], Solves(s)
        PROVE  Under(s)'
    <3>1. Clean
      BY <2>2, CleanBefore
    <3>2. Under(s)
      BY <2>2, <3>1 DEF UnderAll
    <3> QED
      BY <2>2, <3>2, NextUnder
  <2>3. \A s : Solves(s)' => Solves(s)
    BY <2>1 DEF Solves
  <2> QED
    BY <2>1, <2>2, <2>3 DEF UnderAll
<1>3. Inv => RefinesFlow
  <2> SUFFICES ASSUME Inv, pc = "answered", beyond["flow"] = {}, NEW s \in Candidates[prog], Solves(s),
                      NEW v \in Asked
               PROVE  Given(v) \subseteq Ids(ValuesAt(s.values, {RootOf(v)}))
    BY DEF RefinesFlow, Solves
  <2>1. Under(s)
    BY DEF Clean, UnderAll
  <2> QED
    BY <2>1, GivenUnder
<1> QED
  BY <1>1, <1>2, <1>3, PTL DEF Spec
-----------------------------------------------------------------------------
(***************************************************************************)
(* FlowDDA finds a solution of its equations.  Below, V are the keys it    *)
(* has visited, R those it has met in this query, C its cache, E its       *)
(* edges.  Without call strings a key is a node with the pointer it        *)
(* defines or an object.                                                   *)
(***************************************************************************)
KeyOf(n, x) == [loc |-> n, cur |-> x, cxt |-> <<>>]
FlowKey(k) == k.cxt = <<>> /\ (k.loc \in Var => k.cur = k.loc) /\ (k.loc \in Mem => k.cur \in Obj)

\* the values of a key, and the key behind an edge
Found(C, k) == {m.to.id : m \in {x \in C : x.at = k}}
Source(g, x) == KeyOf(g.src, IF g.ind THEN x ELSE g.src)

\* the keys that a key asks: for its pointer operand, for what is stored, for memory
PointerEdges(p, E, k) == {g \in E : /\ p.kind[k.loc] \in {"load", "store"}
                                    /\ g.dst = k.loc /\ ~g.ind /\ g.src = PointerTo(p, k.loc)}
StoredEdges(p, E, k) == {g \in E : g.dst = k.loc /\ ~g.ind /\ g.src = p.src[k.loc]}
MemoryEdges(p, E, k, o) == {g \in E : g.dst = k.loc /\ g.ind /\ o \in g.guard /\ o \notin p.opaque}
PointerKeys(p, E, k) == {Source(g, None) : g \in PointerEdges(p, E, k)}
StoredKeys(p, E, k) == {Source(g, None) : g \in StoredEdges(p, E, k)}
DirectKeys(E, k) == {Source(g, None) : g \in {y \in E : y.dst = k.loc /\ ~y.ind}}
MemoryKeys(p, E, k, o) == {Source(g, o) : g \in MemoryEdges(p, E, k, o)}

(* What flows to a key whose pointer operand points to B.                  *)
Sure(p, k, B) ==
  /\ B = {k.cur} /\ k.cur \notin p.weak \union p.heap
  /\ ~LocalInRecursion(View(p, p.calls, p.calls, "flow"), k.cur)
FlowFor(p, E, k, B, o) ==
  IF p.kind[k.loc] = "load" THEN MemoryKeys(p, E, k, o)
  ELSE (IF o = k.cur THEN StoredKeys(p, E, k) ELSE {})
         \union (IF Sure(p, k, B) THEN {} ELSE MemoryKeys(p, E, k, k.cur))
FlowInto(p, E, k, B) ==
  CASE p.kind[k.loc] = "addr" -> {}
    [] p.kind[k.loc] \in {"copy", "gep"} -> DirectKeys(E, k)
    [] p.kind[k.loc] = "mr" -> MemoryKeys(p, E, k, k.cur)
    [] p.kind[k.loc] \in {"load", "store"} -> UNION {FlowFor(p, E, k, B, o) : o \in B}
Gives(p, k, S, T) == IF p.kind[k.loc] = "gep" THEN \A o \in S : p.field[k.loc][o] \in T ELSE S \subseteq T

(* A key is done when it has all it asks for and the values that flow to it.*)
Base(p, E, C, k) == UNION {Found(C, d) : d \in PointerKeys(p, E, k)}
Done(p, V, C, E, k) ==
  /\ \A v \in p.resolves[k.loc] : KeyOf(v, v) \in V
  /\ PointerKeys(p, E, k) \subseteq V
  /\ \A d \in FlowInto(p, E, k, Base(p, E, C, k)) : d \in V /\ Gives(p, k, Found(C, d), Found(C, k))
  /\ p.kind[k.loc] = "addr" => p.obj[k.loc] \in Found(C, k)

(* An activation that waits for the keys A is up to date when it has what  *)
(* there is now of all it has looked at.                                   *)
Got(V, C, d, S, A) == d \in V /\ (Found(C, d) \subseteq S \/ d \in A)
Visiting(f, d) == \E x \in f.visits : Source(x.edge, x.from.cur) = d
Later(p, E, f, d) ==
  \/ \E c \in f.objs : d \in FlowFor(p, E, f.item.at, Ids(f.base), c.id)
  \/ f.weak # None /\ ~Sure(p, f.item.at, Ids(f.base)) /\ d \in MemoryKeys(p, E, f.item.at, f.item.at.cur)
UpToDate(p, V, C, E, f, A) ==
  LET k == f.item.at IN
  /\ f.stage \in {"funptr", "base", "stmt"}
  /\ \A v \in p.resolves[k.loc] : KeyOf(v, v) \in V \/ (f.stage = "funptr" /\ v \in f.funs)
  /\ f.stage = "base" => \A d \in PointerKeys(p, E, k) : Visiting(f, d) \/ Got(V, C, d, Ids(f.base), A)
  /\ f.stage = "stmt" =>
       /\ \A d \in PointerKeys(p, E, k) : d \in V /\ Found(C, d) \subseteq Ids(f.base)
       /\ \A d \in FlowInto(p, E, k, Ids(f.base)) :
            Visiting(f, d) \/ Later(p, E, f, d) \/ Got(V, C, d, Ids(f.pts), A)
       /\ p.kind[k.loc] = "addr" => p.obj[k.loc] \in Ids(f.pts)

(* An activation that recomputes has a key on its list when it will ask it *)
(* again.                                                                  *)
Hits(p, call, g, d, k) == g.dst = k.loc /\ (~call /\ g.ind /\ p.kind[g.dst] # "load" => k.cur = d.cur)
Feeds(p, E, d, k) == \E g \in E : g.src = d.loc /\ Hits(p, FALSE, g, d, k)
Due(p, E, f, k) ==
  \/ f.stage \in {"new", "out"} /\ \E i \in f.items : i.at = k
  \/ f.stage \in {"new", "out"} /\ \E g \in f.edges : Hits(p, f.stage = "new", g, f.item.at, k)
  \/ f.stage = "new" /\ Feeds(p, E, f.item.at, k)

(* On the stack st, whose youngest activation waits for A, some activation *)
(* takes care of every key that is not done.                               *)
Serves(p, V, C, E, f, A, k) == Due(p, E, f, k) \/ (f.item.at = k /\ UpToDate(p, V, C, E, f, A))
Awaited(st, i, A) == IF i < Len(st) THEN {st[i + 1].item.at} ELSE A
Served(p, V, C, E, st, A, k) ==
  Done(p, V, C, E, k) \/ \E i \in 1..Len(st) : Serves(p, V, C, E, st[i], Awaited(st, i, A), k)

\* earlier queries are done by themselves
Settling(p, V, R, C, E, st) ==
  /\ \A k \in V \ R : Done(p, V \ R, C, E, k)
  /\ \A k \in R : Served(p, V, C, E, st, {}, k)

(* The shape of the keys, the values and the activations of FlowDDA.       *)
FlowFrame(p, R, f) ==
  /\ FlowKey(f.item.at) /\ f.item.at \in R /\ \A i \in f.items : i.at \in R
  /\ \A x \in f.visits : x.edge.ind => x.from.cur \in Obj
  /\ \A c \in f.pts \union f.base : c.cxt = <<>>
  /\ f.objs \subseteq f.base /\ (f.weak # None => f.item.at.cur \in Ids(f.base))
  /\ f.stage = "base" => f.into = "base" /\ p.kind[f.item.at.loc] \in {"load", "store"}
  /\ f.stage = "stmt" /\ p.kind[f.item.at.loc] # "addr" => f.into = "pts"
FlowFrames(p, R, st) == \A i \in 1..Len(st) : FlowFrame(p, R, st[i])
Shape(V, R, C) ==
  /\ R \subseteq V /\ \A k \in V : FlowKey(k)
  /\ \A m \in C : FlowKey(m.at) /\ m.to.cxt = <<>>

(* The value-flow graph of the calls that were found.                      *)
Linked(p, C, E, D, S) ==
  /\ E = EdgesOf(p, D) /\ p.calls \subseteq S /\ S \subseteq D
  /\ \A c \in p.icalls : c.target \in Found(C, KeyOf(c.fp, c.fp)) => c.id \in D

(* The inductive invariant.  It holds while the budget lasts and no call    *)
(* closes a recursion, after which an earlier result may lack what a store *)
(* that has overwritten does not overwrite any more.                       *)
FlowStack == IF engine = "flow" THEN stack ELSE <<>>
MetNow == {i.at : i \in recorded["flow"]}
Sound ==
  /\ Settling(prog, visited["flow"], MetNow, cache["flow"], edges["flow"], FlowStack)
  /\ Shape(visited["flow"], MetNow, cache["flow"]) /\ FlowFrames(prog, MetNow, FlowStack)
  /\ Linked(prog, cache["flow"], edges["flow"], called["flow"], sccCalls["flow"])
  /\ prog.engine = "flow" => \A v \in Asked : KeyOf(v, v) \in visited["flow"]
Faithful == InBudget /\ RecursionKnown(called["flow"])

\* the marks of a query that ran out of budget
Spent ==
  /\ oob["flow"] => beyond["flow"] # {} \/ (engine = "flow" /\ pc # "answered")
  /\ pc = "degrading" /\ engine = "flow" => oob["flow"]
  /\ pc = "answered" => stack = <<>>
-----------------------------------------------------------------------------
(* What flows where.                                                       *)

(* The kinds of statement at a key.                                        *)
LEMMA KindOf ==
  ASSUME prog \in Programs, NEW k \in Key
  PROVE  /\ k.loc \in Node /\ prog.kind[k.loc] \in {"addr", "copy", "gep", "load", "store", "mr"}
         /\ k.loc \in Mem <=> prog.kind[k.loc] \in {"store", "mr"}
         /\ k.loc \notin Mem => k.loc \in Var
BY ProgramParts, ProgramShape DEF Key, Node

(* The more a pointer operand points to, the more flows.                   *)
LEMMA FlowIntoGrows ==
  ASSUME NEW E, NEW k, NEW B, NEW S, B \subseteq S
  PROVE  FlowInto(prog, E, k, B) \subseteq FlowInto(prog, E, k, S)
<1>1. ASSUME NEW o \in B
      PROVE  FlowFor(prog, E, k, B, o) \subseteq FlowFor(prog, E, k, S, o)
  <2>1. Sure(prog, k, S) => Sure(prog, k, B)
    BY <1>1 DEF Sure
  <2> QED
    BY <2>1 DEF FlowFor
<1>2. UNION {FlowFor(prog, E, k, B, o) : o \in B} \subseteq UNION {FlowFor(prog, E, k, S, o) : o \in S}
  BY <1>1
<1> QED
  BY <1>2 DEF FlowInto

(* What a key asks, it asks along an edge that ends at it.                 *)
LEMMA FlowFed ==
  ASSUME prog \in Programs, NEW E, NEW k \in Key, NEW B,
         NEW d \in PointerKeys(prog, E, k) \union FlowInto(prog, E, k, B)
  PROVE  Feeds(prog, E, d, k)
<1>1. ASSUME NEW g \in E, g.dst = k.loc, ~g.ind, d = Source(g, None)
      PROVE  Feeds(prog, E, d, k)
  BY <1>1 DEF Source, KeyOf, Feeds, Hits
<1>2. ASSUME NEW o, prog.kind[k.loc] = "load" \/ o = k.cur, d \in MemoryKeys(prog, E, k, o)
      PROVE  Feeds(prog, E, d, k)
  <2>1. PICK g \in MemoryEdges(prog, E, k, o) : d = Source(g, o)
    BY <1>2 DEF MemoryKeys
  <2> QED
    BY <1>2, <2>1 DEF Source, KeyOf, MemoryEdges, Feeds, Hits
<1>3. CASE d \in PointerKeys(prog, E, k)
  BY <1>1, <1>3 DEF PointerKeys, PointerEdges
<1>4. CASE d \in FlowInto(prog, E, k, B)
  <2>1. d \in DirectKeys(E, k) \union StoredKeys(prog, E, k) => Feeds(prog, E, d, k)
    BY <1>1 DEF DirectKeys, StoredKeys, StoredEdges
  <2>2. ASSUME NEW o \in B, d \in FlowFor(prog, E, k, B, o)
        PROVE  Feeds(prog, E, d, k)
    BY <1>2, <2>1, <2>2 DEF FlowFor
  <2>3. prog.kind[k.loc] \in {"addr", "copy", "gep", "load", "store", "mr"}
    BY KindOf
  <2>4. \/ d \in DirectKeys(E, k) \/ d \in MemoryKeys(prog, E, k, k.cur)
        \/ \E o \in B : d \in FlowFor(prog, E, k, B, o)
    BY <1>4, <2>3 DEF FlowInto
  <2> QED
    BY <1>2, <2>1, <2>2, <2>4
<1> QED
  BY <1>3, <1>4

(* New edges that end elsewhere change nothing at a key.                   *)
LEMMA FlowUnchanged ==
  ASSUME NEW E, NEW G, E \subseteq G, NEW k, \A g \in G \ E : g.dst # k.loc
  PROVE  /\ PointerKeys(prog, G, k) = PointerKeys(prog, E, k)
         /\ \A B : FlowInto(prog, G, k, B) = FlowInto(prog, E, k, B)
         /\ \A B, o : FlowFor(prog, G, k, B, o) = FlowFor(prog, E, k, B, o)
         /\ \A o : MemoryKeys(prog, G, k, o) = MemoryKeys(prog, E, k, o)
<1>1. PointerEdges(prog, G, k) = PointerEdges(prog, E, k) /\ StoredEdges(prog, G, k) = StoredEdges(prog, E, k)
      /\ {y \in G : y.dst = k.loc /\ ~y.ind} = {y \in E : y.dst = k.loc /\ ~y.ind}
  BY DEF PointerEdges, StoredEdges
<1>2. \A o : MemoryEdges(prog, G, k, o) = MemoryEdges(prog, E, k, o)
  BY DEF MemoryEdges
<1>3. PointerKeys(prog, G, k) = PointerKeys(prog, E, k) /\ StoredKeys(prog, G, k) = StoredKeys(prog, E, k)
      /\ DirectKeys(G, k) = DirectKeys(E, k)
  BY <1>1 DEF PointerKeys, StoredKeys, DirectKeys
<1>4. \A o : MemoryKeys(prog, G, k, o) = MemoryKeys(prog, E, k, o)
  BY <1>2 DEF MemoryKeys
<1>5. \A B, o : FlowFor(prog, G, k, B, o) = FlowFor(prog, E, k, B, o)
  BY <1>3, <1>4 DEF FlowFor
<1>6. \A B : UNION {FlowFor(prog, G, k, B, o) : o \in B} = UNION {FlowFor(prog, E, k, B, o) : o \in B}
  BY <1>5
<1>7. \A B : FlowInto(prog, G, k, B) = FlowInto(prog, E, k, B)
  BY <1>3, <1>4, <1>6 DEF FlowInto
<1> QED
  BY <1>3, <1>4, <1>5, <1>7

-----------------------------------------------------------------------------
(* Who is done, and who is up to date.                                     *)

(* Visits only add to what is done.                                        *)
LEMMA VisitsKeep ==
  ASSUME NEW V, NEW W, V \subseteq W, NEW C, NEW E, NEW k
  PROVE  /\ Done(prog, V, C, E, k) => Done(prog, W, C, E, k)
         /\ \A f, A : UpToDate(prog, V, C, E, f, A) => UpToDate(prog, W, C, E, f, A)
         /\ \A f, A : Serves(prog, V, C, E, f, A, k) => Serves(prog, W, C, E, f, A, k)
         /\ \A st, A : Served(prog, V, C, E, st, A, k) => Served(prog, W, C, E, st, A, k)
<1>1. Done(prog, V, C, E, k) => Done(prog, W, C, E, k)
  BY DEF Done
<1>2. ASSUME NEW f, NEW A, UpToDate(prog, V, C, E, f, A)
      PROVE  UpToDate(prog, W, C, E, f, A)
  BY <1>2 DEF UpToDate, Got
<1>3. \A f, A : Serves(prog, V, C, E, f, A, k) => Serves(prog, W, C, E, f, A, k)
  BY <1>2 DEF Serves
<1> QED
  BY <1>1, <1>2, <1>3 DEF Served

\* the cache and the graph have grown at the key j, and no new edge ends at k
Around(C, H, E, G, j, k) ==
  /\ E \subseteq G /\ \A g \in G \ E : g.dst # k.loc
  /\ \A d : Found(C, d) \subseteq Found(H, d) /\ (d # j => Found(H, d) = Found(C, d))

(* A key that is done and does not ask the grown one stays done.           *)
LEMMA DoneKeeps ==
  ASSUME NEW V, NEW C, NEW H, NEW E, NEW G, NEW j, NEW k, Around(C, H, E, G, j, k),
         j \notin PointerKeys(prog, E, k) \union FlowInto(prog, E, k, Base(prog, E, C, k)),
         Done(prog, V, C, E, k)
  PROVE  Done(prog, V, H, G, k)
<1>1. /\ PointerKeys(prog, G, k) = PointerKeys(prog, E, k)
      /\ \A B : FlowInto(prog, G, k, B) = FlowInto(prog, E, k, B)
  BY FlowUnchanged DEF Around
<1>2. \A d \in PointerKeys(prog, E, k) \union FlowInto(prog, E, k, Base(prog, E, C, k)) :
        Found(H, d) = Found(C, d)
  BY DEF Around
<1>3. Base(prog, G, H, k) = Base(prog, E, C, k)
  BY <1>1, <1>2 DEF Base
<1>4. Found(C, k) \subseteq Found(H, k)
  BY DEF Around
<1>5. \A d \in FlowInto(prog, E, k, Base(prog, E, C, k)) : d \in V /\ Gives(prog, k, Found(H, d), Found(H, k))
  BY <1>2, <1>4 DEF Done, Gives
<1> QED
  BY <1>1, <1>3, <1>4, <1>5 DEF Done

(* A key that the grown one does not feed stays as it was.                 *)
LEMMA GrowthKeeps ==
  ASSUME prog \in Programs, NEW V, NEW C, NEW H, NEW E, NEW G, NEW j, NEW k \in Key,
         Around(C, H, E, G, j, k), ~Feeds(prog, E, j, k)
  PROVE  /\ Done(prog, V, C, E, k) => Done(prog, V, H, G, k)
         /\ \A f, A : f.item.at = k /\ UpToDate(prog, V, C, E, f, A) => UpToDate(prog, V, H, G, f, A)
<1>1. /\ PointerKeys(prog, G, k) = PointerKeys(prog, E, k)
      /\ \A B : FlowInto(prog, G, k, B) = FlowInto(prog, E, k, B)
      /\ \A B, o : FlowFor(prog, G, k, B, o) = FlowFor(prog, E, k, B, o)
      /\ \A o : MemoryKeys(prog, G, k, o) = MemoryKeys(prog, E, k, o)
  BY FlowUnchanged DEF Around
<1>2. \A B : \A d \in PointerKeys(prog, E, k) \union FlowInto(prog, E, k, B) : d # j
  BY FlowFed
<1>3. \A B : \A d \in PointerKeys(prog, E, k) \union FlowInto(prog, E, k, B) : Found(H, d) = Found(C, d)
  BY <1>2 DEF Around
<1>4. Done(prog, V, C, E, k) => Done(prog, V, H, G, k)
  BY <1>2, DoneKeeps
<1>5. ASSUME NEW f, NEW A, f.item.at = k, UpToDate(prog, V, C, E, f, A)
      PROVE  UpToDate(prog, V, H, G, f, A)
  <2>1. \A d : Later(prog, E, f, d) => Later(prog, G, f, d)
    BY <1>1, <1>5 DEF Later
  <2>2. \A B, S : \A d \in PointerKeys(prog, E, k) \union FlowInto(prog, E, k, B) :
          Got(V, C, d, S, A) => Got(V, H, d, S, A)
    BY <1>3 DEF Got
  <2> QED
    BY <1>1, <1>3, <1>5, <2>1, <2>2 DEF UpToDate
<1> QED
  BY <1>4, <1>5

(* An activation that has nothing left to look at makes its key done.      *)
LEMMA FinishDone ==
  ASSUME prog \in Programs, NEW V, NEW C, NEW E, NEW f, f.item.at \in Key, UpToDate(prog, V, C, E, f, {}),
         f.stage = "stmt", f.visits = {}, f.objs = {}, f.weak = None,
         Gives(prog, f.item.at, Ids(f.pts), Found(C, f.item.at))
  PROVE  Done(prog, V, C, E, f.item.at)
<1> DEFINE k == f.item.at
           B == Ids(f.base)
<1>1. /\ \A v \in prog.resolves[k.loc] : KeyOf(v, v) \in V
      /\ \A d \in PointerKeys(prog, E, k) : d \in V /\ Found(C, d) \subseteq B
      /\ \A d \in FlowInto(prog, E, k, B) :
           Visiting(f, d) \/ Later(prog, E, f, d) \/ Got(V, C, d, Ids(f.pts), {})
      /\ prog.kind[k.loc] = "addr" => prog.obj[k.loc] \in Ids(f.pts)
  BY DEF UpToDate
<1>2. \A d : ~Visiting(f, d) /\ ~Later(prog, E, f, d)
  BY DEF Visiting, Later
<1> HIDE DEF B
<1>3. Base(prog, E, C, k) \subseteq B
  BY <1>1 DEF Base
<1>4. FlowInto(prog, E, k, Base(prog, E, C, k)) \subseteq FlowInto(prog, E, k, B)
  BY <1>3, FlowIntoGrows
<1>5. \A d \in FlowInto(prog, E, k, Base(prog, E, C, k)) : d \in V /\ Found(C, d) \subseteq Ids(f.pts)
  BY <1>1, <1>2, <1>4 DEF Got
<1>6. \A d \in FlowInto(prog, E, k, Base(prog, E, C, k)) : d \in V /\ Gives(prog, k, Found(C, d), Found(C, k))
  BY <1>5 DEF Gives
<1>7. prog.kind[k.loc] = "addr" => prog.obj[k.loc] \in Found(C, k)
  BY <1>1 DEF Gives
<1> QED
  BY <1>1, <1>6, <1>7 DEF Done
-----------------------------------------------------------------------------
(* The stack.                                                              *)

LEMMA PushServes ==
  ASSUME NEW V, NEW C, NEW E, NEW st \in Seq(Frame), NEW f \in Frame, NEW A, NEW k,
         Served(prog, V, C, E, st, {f.item.at}, k) \/ Serves(prog, V, C, E, f, A, k)
  PROVE  Served(prog, V, C, E, Append(st, f), A, k)
<1> DEFINE new == Append(st, f)
<1>1. /\ Len(new) = Len(st) + 1 /\ Len(st) \in Nat
      /\ \A i \in 1..Len(st) : new[i] = st[i]
      /\ new[Len(st) + 1] = f
  BY AppendProperties, LenProperties
<1> HIDE DEF new
<1>2. CASE Done(prog, V, C, E, k)
  BY <1>2 DEF Served, new
<1>3. CASE Serves(prog, V, C, E, f, A, k)
  <2>1. Len(new) \in 1..Len(new) /\ new[Len(new)] = f /\ Awaited(new, Len(new), A) = A
    BY <1>1 DEF Awaited
  <2> QED
    BY <1>3, <2>1 DEF Served, new
<1>4. ASSUME NEW i \in 1..Len(st), Serves(prog, V, C, E, st[i], Awaited(st, i, {f.item.at}), k)
      PROVE  Served(prog, V, C, E, new, A, k)
  <2>1. i \in 1..Len(new) /\ i < Len(new) /\ new[i] = st[i]
    BY <1>1
  <2>2. Awaited(new, i, A) = Awaited(st, i, {f.item.at})
    <3>1. CASE i < Len(st)
      <4>1. i + 1 \in 1..Len(st)
        BY <1>1, <3>1
      <4> QED
        BY <1>1, <2>1, <3>1, <4>1 DEF Awaited
    <3>2. CASE i = Len(st)
      BY <1>1, <2>1, <3>2 DEF Awaited
    <3> QED
      BY <1>1, <3>1, <3>2
  <2> QED
    BY <1>4, <2>1, <2>2 DEF Served
<1> QED
  BY <1>2, <1>3, <1>4 DEF Served, new

LEMMA PopServes ==
  ASSUME NEW V, NEW C, NEW E, NEW st \in Seq(Frame), NEW f \in Frame, NEW A, NEW k,
         Served(prog, V, C, E, Append(st, f), A, k)
  PROVE  Served(prog, V, C, E, st, {f.item.at}, k) \/ Serves(prog, V, C, E, f, A, k)
<1> DEFINE old == Append(st, f)
<1>1. /\ Len(old) = Len(st) + 1 /\ Len(st) \in Nat
      /\ \A i \in 1..Len(st) : old[i] = st[i]
      /\ old[Len(st) + 1] = f
  BY AppendProperties, LenProperties
<1> HIDE DEF old
<1>2. ASSUME NEW i \in 1..Len(old), Serves(prog, V, C, E, old[i], Awaited(old, i, A), k)
      PROVE  Served(prog, V, C, E, st, {f.item.at}, k) \/ Serves(prog, V, C, E, f, A, k)
  <2>1. CASE i = Len(st) + 1
    <3>1. old[i] = f /\ Awaited(old, i, A) = A
      BY <1>1, <2>1 DEF Awaited
    <3> QED
      BY <1>2, <3>1
  <2>2. CASE i # Len(st) + 1
    <3>1. i \in 1..Len(st) /\ old[i] = st[i]
      BY <1>1, <2>2
    <3>2. Awaited(old, i, A) = Awaited(st, i, {f.item.at})
      <4>1. CASE i < Len(st)
        <5>1. i + 1 \in 1..Len(st)
          BY <1>1, <4>1
        <5> QED
          BY <1>1, <4>1, <5>1 DEF Awaited
      <4>2. CASE i = Len(st)
        <5>1. i < Len(old) /\ old[i + 1] = f
          BY <1>1, <4>2
        <5> QED
          BY <1>1, <4>2, <5>1 DEF Awaited
      <4> QED
        BY <1>1, <3>1, <4>1, <4>2
    <3> QED
      BY <1>2, <3>1, <3>2 DEF Served
  <2> QED
    BY <2>1, <2>2
<1> QED
  BY <1>2 DEF Served, old

LEMMA TopOn ==
  ASSUME TypeOK, stack # <<>>
  PROVE  stack = Append(Below, top) /\ Below \in Seq(Frame) /\ top \in Frame
<1> DEFINE n == Len(stack) - 1
<1>1. stack \in Seq(Frame) /\ n \in Nat /\ Len(stack) = n + 1 /\ Len(stack) \in Nat
  BY TopType DEF TypeOK
<1>2. Below \in Seq(Frame) /\ top \in Frame
  BY TopType
<1>3. Len(Below) = n /\ \A i \in 1..n : Below[i] = stack[i]
  <2>1. \A i \in 1..n : stack[i] \in Frame
    BY <1>1, ElementOfSeq
  <2> QED
    BY <1>1, <2>1, SubSeqProperties DEF Below
<1> HIDE DEF n
<1>4. /\ Len(Append(Below, top)) = Len(stack) /\ Append(Below, top) \in Seq(Frame)
      /\ \A i \in 1..Len(stack) : Append(Below, top)[i] = stack[i]
  <2>1. /\ Append(Below, top) \in Seq(Frame) /\ Len(Append(Below, top)) = n + 1
        /\ \A i \in 1..n : Append(Below, top)[i] = Below[i]
        /\ Append(Below, top)[n + 1] = top
    BY <1>1, <1>2, <1>3, AppendProperties
  <2>2. \A i \in 1..(n + 1) : i \in 1..n \/ i = n + 1
    BY <1>1
  <2>3. stack[n + 1] = top
    BY <1>1 DEF top
  <2> QED
    BY <1>1, <1>3, <2>1, <2>2, <2>3
<1> QED
  BY <1>1, <1>2, <1>4, SeqEqual

(* The shape of what is pushed and what is left.                           *)
LEMMA PushShape ==
  ASSUME NEW R, NEW st \in Seq(Frame), NEW f \in Frame
  PROVE  FlowFrames(prog, R, Append(st, f)) <=> FlowFrames(prog, R, st) /\ FlowFrame(prog, R, f)
<1> DEFINE new == Append(st, f)
<1>1. /\ Len(new) = Len(st) + 1 /\ Len(st) \in Nat
      /\ \A i \in 1..Len(st) : new[i] = st[i]
      /\ new[Len(st) + 1] = f
  BY AppendProperties, LenProperties
<1> HIDE DEF new
<1>2. FlowFrames(prog, R, new) <=> FlowFrames(prog, R, st) /\ FlowFrame(prog, R, f)
  BY <1>1 DEF FlowFrames
<1> QED
  BY <1>2 DEF new

(* What the top frame of st takes from the call it has waited for.         *)
LEMMA GiveServes ==
  ASSUME NEW V, NEW C, NEW E, NEW R, NEW st \in Seq(Frame), NEW d, NEW pts \in SUBSET CVar,
         FlowFrames(prog, R, st), \A c \in pts : c.cxt = <<>>, Found(C, d) \subseteq Ids(pts)
  PROVE  /\ FlowFrames(prog, R, Give(st, pts)) /\ Give(st, pts) \in Seq(Frame)
         /\ \A k : Served(prog, V, C, E, st, {d}, k) => Served(prog, V, C, E, Give(st, pts), {}, k)
<1>1. CASE st = <<>>
  <2>1. Give(st, pts) = st /\ 1..Len(st) = {}
    BY <1>1, EmptySeq DEF Give
  <2> QED
    BY <1>1, <2>1 DEF Served, FlowFrames
<1>2. CASE st # <<>>
  <2> DEFINE n == Len(st)
             f == st[n]
             new == CASE f.into = "pts" -> [f EXCEPT !.pts = UnionPts(@, pts)]
                      [] f.into = "base" -> [f EXCEPT !.base = UnionPts(@, pts)]
                      [] f.into = "none" -> f
             give == [st EXCEPT ![n] = new]
  <2>0. n = Len(st)
    OBVIOUS
  <2>1. n \in Nat /\ n > 0 /\ n \in 1..n /\ f \in Frame /\ DOMAIN st = 1..n
    BY <1>2, EmptySeq, LenProperties, ElementOfSeq
  <2>2. Give(st, pts) = give
    BY <1>2 DEF Give
  <2>3. give \in Seq(Frame)
    BY <2>2, GiveType
  <2>4. /\ Len(give) = n /\ give[n] = new
        /\ \A i \in 1..n : i # n => give[i] = st[i]
    <3>1. DOMAIN give = DOMAIN st
      OBVIOUS
    <3>2. Len(give) = n
      BY <2>1, <2>3, <3>1, LenProperties
    <3> QED
      BY <2>1, <3>2
  <2>5. /\ new.item = f.item /\ new.stage = f.stage /\ new.funs = f.funs /\ new.visits = f.visits
        /\ new.objs = f.objs /\ new.weak = f.weak /\ new.into = f.into /\ new.items = f.items
        /\ new.edges = f.edges
        /\ f.pts \subseteq new.pts /\ new.pts \subseteq f.pts \union pts
        /\ f.base \subseteq new.base /\ new.base \subseteq f.base \union pts
        /\ f.into = "pts" => new.pts = UnionPts(f.pts, pts)
        /\ f.into = "base" => new.base = UnionPts(f.base, pts)
        /\ f.into # "base" => new.base = f.base
    <3>1. /\ f.into = "pts" => new = [f EXCEPT !.pts = UnionPts(@, pts)]
          /\ f.into = "base" => new = [f EXCEPT !.base = UnionPts(@, pts)]
          /\ f.into = "none" => new = f
          /\ f.into \in {"pts", "base", "none"}
      BY <2>1 DEF Frame
    <3> HIDE DEF new, f
    <3> QED
      BY <2>1, <3>1, UnionPtsSubset DEF Frame
  <2> HIDE DEF new, give, f, n
  <2>6. FlowFrame(prog, R, f)
    BY <2>1 DEF FlowFrames, f, n
  <2>7. f.into = "pts" => Found(C, d) \subseteq Ids(new.pts)
    BY <2>5 DEF UnionPts, Ids, SameElement
  <2>8. f.into = "base" => Found(C, d) \subseteq Ids(new.base)
    BY <2>5 DEF UnionPts, Ids, SameElement
  <2>9. Ids(f.pts) \subseteq Ids(new.pts) /\ Ids(f.base) \subseteq Ids(new.base)
    BY <2>5 DEF Ids
  <2>10. FlowFrame(prog, R, new)
    <3>1. \A c \in new.pts \union new.base : c.cxt = <<>>
      BY <2>5, <2>6 DEF FlowFrame
    <3> QED
      BY <2>5, <2>6, <2>9, <3>1 DEF FlowFrame
  <2>11. FlowFrames(prog, R, give)
    BY <2>1, <2>4, <2>10 DEF FlowFrames, n
  <2>12. \A k : Serves(prog, V, C, E, f, {d}, k) => Serves(prog, V, C, E, new, {}, k)
    <3>1. \A k : Due(prog, E, f, k) => Due(prog, E, new, k)
      BY <2>5 DEF Due
    <3>2. ASSUME UpToDate(prog, V, C, E, f, {d})
          PROVE  UpToDate(prog, V, C, E, new, {})
      <4> DEFINE k == f.item.at
      <4>1. CASE f.stage = "funptr"
        BY <2>5, <3>2, <4>1 DEF UpToDate
      <4>2. CASE f.stage = "base"
        <5>1. f.into = "base"
          BY <2>6, <4>2 DEF FlowFrame
        <5>2. \A b \in PointerKeys(prog, E, k) : Visiting(f, b) \/ Got(V, C, b, Ids(f.base), {d})
          BY <3>2, <4>2 DEF UpToDate
        <5>3. \A b \in PointerKeys(prog, E, k) : Visiting(new, b) \/ Got(V, C, b, Ids(new.base), {})
          BY <2>5, <2>8, <2>9, <5>1, <5>2 DEF Got, Visiting
        <5> QED
          BY <2>5, <3>2, <4>2, <5>3 DEF UpToDate
      <4>3. CASE f.stage = "stmt"
        <5>1. prog.kind[k.loc] # "addr" => f.into = "pts"
          BY <2>6, <4>3 DEF FlowFrame
        <5>2. \A b \in FlowInto(prog, E, k, Ids(f.base)) :
                 Visiting(f, b) \/ Later(prog, E, f, b) \/ Got(V, C, b, Ids(f.pts), {d})
          BY <3>2, <4>3 DEF UpToDate
        <5>3. CASE prog.kind[k.loc] = "addr"
          <6>1. FlowInto(prog, E, k, Ids(new.base)) = {} /\ PointerKeys(prog, E, k) = {}
            BY <5>3 DEF FlowInto, PointerKeys, PointerEdges
          <6> QED
            BY <2>5, <2>9, <3>2, <4>3, <6>1 DEF UpToDate
        <5>4. CASE prog.kind[k.loc] # "addr"
          <6>1. new.base = f.base
            BY <2>5, <5>1, <5>4
          <6>2. \A b \in FlowInto(prog, E, k, Ids(new.base)) :
                  Visiting(new, b) \/ Later(prog, E, new, b) \/ Got(V, C, b, Ids(new.pts), {})
            BY <2>5, <2>7, <2>9, <5>1, <5>2, <5>4, <6>1 DEF Got, Visiting, Later
          <6> QED
            BY <2>5, <3>2, <4>3, <5>4, <6>1, <6>2 DEF UpToDate
        <5> QED
          BY <5>3, <5>4
      <4> QED
        BY <3>2, <4>1, <4>2, <4>3 DEF UpToDate
    <3> QED
      BY <2>5, <3>1, <3>2 DEF Serves
  <2>13. ASSUME NEW k, Served(prog, V, C, E, st, {d}, k)
         PROVE  Served(prog, V, C, E, give, {}, k)
    <3>1. ASSUME NEW i \in 1..n, Serves(prog, V, C, E, st[i], Awaited(st, i, {d}), k)
          PROVE  Served(prog, V, C, E, give, {}, k)
      <4>1. CASE i = n
        <5>1. Awaited(st, i, {d}) = {d} /\ Awaited(give, i, {}) = {}
          <6>1. ~(i < Len(st)) /\ ~(i < Len(give))
            BY <2>0, <2>1, <2>4, <3>1, <4>1
          <6> QED
            BY <6>1 DEF Awaited
        <5>2. st[i] = f /\ give[i] = new
          <6>1. st[n] = f
            BY DEF f
          <6> QED
            BY <2>4, <4>1, <6>1
        <5> QED
          <6>1. Serves(prog, V, C, E, f, {d}, k)
            BY <3>1, <5>1, <5>2
          <6>2. Serves(prog, V, C, E, give[i], Awaited(give, i, {}), k)
            BY <2>12, <5>1, <5>2, <6>1
          <6> QED
            BY <2>4, <6>2 DEF Served
      <4>2. CASE i # n
        <5>1. i < n /\ i + 1 \in 1..n
          BY <2>1, <4>2
        <5>2. give[i + 1].item = st[i + 1].item
          BY <2>4, <2>5, <5>1 DEF f, n
        <5>3. Awaited(st, i, {d}) = Awaited(give, i, {}) /\ st[i] = give[i]
          BY <2>4, <4>2, <5>1, <5>2 DEF Awaited, n
        <5> QED
          BY <2>4, <3>1, <5>3 DEF Served
      <4> QED
        BY <4>1, <4>2
    <3> QED
      BY <2>13, <3>1 DEF Served, n
  <2> QED
    BY <2>2, <2>3, <2>11, <2>13
<1> QED
  BY <1>1, <1>2
-----------------------------------------------------------------------------
(* Steps of an activation, whatever it does.                               *)

Marks == visited["flow"]
Values == cache["flow"]
Links == edges["flow"]
Acting == Valid /\ engine = "flow" /\ Sound /\ stack # <<>>

LEMMA ActingParts ==
  ASSUME Acting
  PROVE  /\ "flow" \in Engine /\ prog \in Programs /\ TypeOK
         /\ Marks \in SUBSET Key /\ Values \in SUBSET [at : Key, to : CVar] /\ Links \in SUBSET Edge
         /\ MetNow \subseteq Marks /\ MetNow \in SUBSET Key
         /\ \A k \in Marks \ MetNow : Done(prog, Marks \ MetNow, Values, Links, k)
         /\ \A k \in MetNow : Served(prog, Marks, Values, Links, stack, {}, k)
         /\ Shape(Marks, MetNow, Values) /\ FlowFrames(prog, MetNow, stack)
         /\ stack = Append(Below, top) /\ Below \in Seq(Frame) /\ top \in Frame
         /\ FlowFrames(prog, MetNow, Below) /\ FlowFrame(prog, MetNow, top)
         /\ top.item \in Item /\ top.item.at \in Key
<1>1. "flow" \in Engine /\ prog \in Programs /\ TypeOK
  BY DEF Acting, Valid, Engine
<1>2. Marks \in SUBSET Key /\ Values \in SUBSET [at : Key, to : CVar] /\ Links \in SUBSET Edge
  BY <1>1 DEF TypeOK, Marks, Values, Links
<1>3. /\ \A k \in Marks \ MetNow : Done(prog, Marks \ MetNow, Values, Links, k)
      /\ \A k \in MetNow : Served(prog, Marks, Values, Links, stack, {}, k)
      /\ Shape(Marks, MetNow, Values) /\ FlowFrames(prog, MetNow, stack)
  BY DEF Acting, Sound, Settling, FlowStack, Marks, Values, Links
<1>4. MetNow \subseteq Marks
  BY <1>3 DEF Shape
<1>5. stack = Append(Below, top) /\ Below \in Seq(Frame) /\ top \in Frame
  BY <1>1, TopOn DEF Acting
<1>6. FlowFrames(prog, MetNow, Below) /\ FlowFrame(prog, MetNow, top)
  BY <1>3, <1>5, PushShape
<1>7. top.item \in Item /\ top.item.at \in Key
  BY <1>5 DEF Frame, Item
<1> QED
  BY <1>1, <1>2, <1>3, <1>4, <1>5, <1>6, <1>7

(* The top activation changes; the others do not.                          *)
LEMMA TopServes ==
  ASSUME Acting, NEW f \in Frame, f.item = top.item, NEW W, Marks \subseteq W, NEW A, NEW k \in MetNow,
         Serves(prog, Marks, Values, Links, top, {}, k) => Serves(prog, W, Values, Links, f, A, k)
  PROVE  Served(prog, W, Values, Links, Replace(f), A, k)
<1>1. Served(prog, Marks, Values, Links, Append(Below, top), {}, k)
  BY ActingParts
<1>2. \/ Served(prog, Marks, Values, Links, Below, {f.item.at}, k)
      \/ Serves(prog, Marks, Values, Links, top, {}, k)
  BY <1>1, ActingParts, PopServes
<1>3. \/ Served(prog, W, Values, Links, Below, {f.item.at}, k)
      \/ Serves(prog, W, Values, Links, f, A, k)
  BY <1>2, VisitsKeep
<1> QED
  BY <1>3, ActingParts, PushServes DEF Replace

\* nothing that Sound speaks of changes, but for the stack, marks and records
LEMMA SoundAgain ==
  ASSUME Acting, UNCHANGED <<prog, queries, engine, cache, graph>>, Marks \subseteq Marks',
         Settling(prog, Marks', MetNow', Values, Links, stack'), Shape(Marks', MetNow', Values),
         FlowFrames(prog, MetNow', stack')
  PROVE  Sound'
<1>1. Values' = Values /\ Links' = Links /\ prog' = prog /\ FlowStack' = stack' /\ Asked' = Asked
  BY DEF Values, Links, graph, FlowStack, Acting, Asked
<1>2. Settling(prog, Marks, MetNow, Values, Links, FlowStack)'
  BY <1>1
<1>3. Shape(Marks, MetNow, Values)' /\ FlowFrames(prog, MetNow, FlowStack)'
  BY <1>1
<1>4. Linked(prog, Values, Links, called["flow"], sccCalls["flow"])'
  BY <1>1 DEF Acting, Sound, Values, Links, graph
<1>5. prog.engine = "flow" => \A v \in Asked : KeyOf(v, v) \in Marks
  BY DEF Acting, Sound, Marks
<1>6. (prog.engine = "flow" => \A v \in Asked : KeyOf(v, v) \in Marks)'
  BY <1>1, <1>5
<1> QED
  BY <1>2, <1>3, <1>4, <1>6 DEF Sound, Marks, Values, Links

(* A step of the top activation alone.                                     *)
LEMMA AloneSettles ==
  ASSUME Acting, NEW f \in Frame, f.item = top.item, FlowFrame(prog, MetNow, f),
         \A k \in MetNow : Serves(prog, Marks, Values, Links, top, {}, k)
                           => Serves(prog, Marks, Values, Links, f, {}, k),
         stack' = Replace(f), UNCHANGED onlyTop
  PROVE  Sound'
<1>1. /\ UNCHANGED <<prog, queries, engine, cache, graph>> /\ Marks' = Marks /\ MetNow' = MetNow
  BY DEF onlyTop, inQuery, Marks, MetNow
<1>2. Settling(prog, Marks, MetNow, Values, Links, stack')
  <2>1. \A k \in MetNow : Served(prog, Marks, Values, Links, stack', {}, k)
    BY TopServes
  <2> QED
    BY <2>1, ActingParts DEF Settling
<1>3. FlowFrames(prog, MetNow, stack')
  BY ActingParts, PushShape DEF Replace
<1>4. Shape(Marks, MetNow, Values)
  BY ActingParts
<1> QED
  BY <1>1, <1>2, <1>3, <1>4, SoundAgain

(* A larger record of keys.                                                *)
LEMMA FramesKeep ==
  ASSUME NEW R, NEW S, R \subseteq S, NEW st, FlowFrames(prog, R, st)
  PROVE  FlowFrames(prog, S, st)
BY DEF FlowFrames, FlowFrame

(* What FlowDDA finds for a key.                                           *)
LEMMA CachedFound ==
  ASSUME TypeOK, NEW k, Shape(Marks, MetNow, Values)
  PROVE  /\ CachedPts("flow", k) \in SUBSET CVar /\ Ids(CachedPts("flow", k)) = Found(Values, k)
         /\ \A c \in CachedPts("flow", k) : c.cxt = <<>>
<1>1. CachedPts("flow", k) \in SUBSET CVar
  BY CachedType DEF Engine
<1>2. Ids(CachedPts("flow", k)) = Found(Values, k)
  BY DEF Ids, CachedPts, Found, Values
<1>3. \A c \in CachedPts("flow", k) : c.cxt = <<>>
  BY DEF Shape, CachedPts, Values
<1> QED
  BY <1>1, <1>2, <1>3

(* A call of findPT() from the top activation, which has become f: the key *)
(* asked is marked, and its values are returned or will be.                *)
LEMMA CallSettles ==
  ASSUME Acting, beyond["flow"] = {}, ~oob'["flow"],
         NEW f \in Frame, f.item = top.item, FlowFrame(prog, MetNow, f),
         NEW d \in Item, FlowKey(d.at), NEW vis,
         \/ vis = Marks
         \/ vis = Marks \ {d.at} /\ d.at \in MetNow,
         \A k \in MetNow :
           Serves(prog, Marks, Values, Links, top, {}, k)
             => \/ Serves(prog, Marks \union {d.at}, Values, Links, f, {d.at}, k)
                \/ k = d.at /\ vis = Marks \ {d.at},
         FindPT(d, vis, Replace(f)), UNCHANGED <<inQuery, cache, graph>>
  PROVE  Sound'
<1> DEFINE W == Marks \union {d.at}
           st == Replace(f)
           new == NewFrame(d, "funptr", {})
<1>1. /\ UNCHANGED <<prog, queries, engine, cache, graph>> /\ engine = "flow"
      /\ st \in Seq(Frame) /\ FlowFrames(prog, MetNow, st) /\ Shape(Marks, MetNow, Values)
      /\ MetNow \subseteq Marks /\ "flow" \in Engine
      /\ \A k \in Marks \ MetNow : Done(prog, Marks \ MetNow, Values, Links, k)
  <2>1. st \in Seq(Frame)
    BY ActingParts, TopType DEF Acting
  <2>2. FlowFrames(prog, MetNow, st)
    BY ActingParts, PushShape DEF Replace
  <2> QED
    BY <2>1, <2>2, ActingParts DEF Acting, inQuery
<1> HIDE DEF st
<1>2. /\ Marks' = W
      /\ d.at \in vis => MetNow' = MetNow
      /\ d.at \notin vis => MetNow' = MetNow \union {d.at}
      /\ d.at \in vis => stack' = Give(st, CachedPts("flow", d.at))
      /\ d.at \notin vis => stack' = Append(st, new)
  <2>1. visited["flow"] \union {d.at} = vis \union {d.at}
    BY DEF Marks
  <2>2. /\ visited' = [visited EXCEPT !["flow"] = vis \union {d.at}]
        /\ recorded' = IF d.at \in vis THEN recorded ELSE [recorded EXCEPT !["flow"] = Insert(@, d)]
        /\ d.at \notin vis =>
             oob' = [oob EXCEPT !["flow"] = oob["flow"] \/ steps["flow"] + 1 > prog.budget["flow"]]
        /\ stack' = IF \/ d.at \in vis \/ (oob["flow"] \/ steps["flow"] + 1 > prog.budget["flow"])
                       \/ d.at \in beyond["flow"]
                    THEN Give(st, CachedPts("flow", d.at)) ELSE Append(st, new)
    BY <1>1 DEF FindPT, st
  <2>3. /\ visited \in [Engine -> SUBSET Key] /\ recorded \in [Engine -> SUBSET Item]
        /\ oob \in [Engine -> BOOLEAN]
    BY DEF Acting, Valid, TypeOK
  <2>4. Marks' = W
    BY <1>1, <2>1, <2>2, <2>3 DEF Marks
  <2>5. d.at \in vis => MetNow' = MetNow
    BY <2>2 DEF MetNow
  <2>6. d.at \notin vis => MetNow' = MetNow \union {d.at}
    <3>1. d.at \notin vis => recorded'["flow"] = Insert(recorded["flow"], d)
      BY <1>1, <2>2, <2>3
    <3> QED
      BY <3>1 DEF MetNow, Insert
  <2>7. d.at \notin vis => ~(oob["flow"] \/ steps["flow"] + 1 > prog.budget["flow"])
    <3>1. d.at \notin vis => (oob'["flow"] = (oob["flow"] \/ steps["flow"] + 1 > prog.budget["flow"]))
      BY <1>1, <2>2, <2>3
    <3> QED
      BY <3>1
  <2> QED
    BY <2>2, <2>4, <2>5, <2>6, <2>7
<1> HIDE DEF new
<1>3. \A k \in MetNow : \/ Served(prog, W, Values, Links, st, {d.at}, k)
                        \/ k = d.at /\ vis = Marks \ {d.at}
  BY TopServes, VisitsKeep DEF st
<1>4. CASE d.at \in vis
  <2>1. W = Marks /\ vis = Marks
    BY <1>4
  <2>2. \A k \in MetNow : Served(prog, Marks, Values, Links, st, {d.at}, k)
    BY <1>3, <1>4, <2>1
  <2>3. /\ FlowFrames(prog, MetNow, stack')
        /\ \A k \in MetNow : Served(prog, Marks, Values, Links, stack', {}, k)
    <3>1. /\ CachedPts("flow", d.at) \in SUBSET CVar
          /\ Found(Values, d.at) \subseteq Ids(CachedPts("flow", d.at))
          /\ \A c \in CachedPts("flow", d.at) : c.cxt = <<>>
      BY <1>1, CachedFound DEF Acting, Valid
    <3>2. stack' = Give(st, CachedPts("flow", d.at))
      BY <1>2, <1>4
    <3> QED
      BY <1>1, <2>2, <3>1, <3>2, GiveServes
  <2>4. Settling(prog, Marks', MetNow', Values, Links, stack') /\ Marks' = Marks /\ MetNow' = MetNow
    BY <1>1, <1>2, <1>4, <2>1, <2>3 DEF Settling
  <2> QED
    BY <1>1, <2>3, <2>4, SoundAgain
<1>5. CASE d.at \notin vis
  <2>1. W \ (MetNow \union {d.at}) = Marks \ MetNow
    BY <1>1, <1>5
  <2>2. new \in Frame /\ new.item = d /\ new.stage = "funptr" /\ new.funs = prog.resolves[d.at.loc]
        /\ new.visits = {} /\ new.pts = {} /\ new.base = {} /\ new.objs = {} /\ new.weak = None
        /\ new.items = {}
    BY ActingParts, NewFrameType DEF new, NewFrame, Stage
  <2>3. Serves(prog, W, Values, Links, new, {}, d.at)
    BY <2>2 DEF Serves, UpToDate
  <2>4. \A k \in MetNow \union {d.at} : Served(prog, W, Values, Links, stack', {}, k)
    <3>1. stack' = Append(st, new) /\ new.item.at = d.at
      BY <1>2, <1>5, <2>2
    <3>2. ASSUME NEW k \in MetNow \union {d.at}
          PROVE  \/ Served(prog, W, Values, Links, st, {new.item.at}, k)
                 \/ Serves(prog, W, Values, Links, new, {}, k)
      BY <1>3, <2>3, <3>1
    <3> HIDE DEF W
    <3> QED
      BY <1>1, <2>2, <3>1, <3>2, PushServes
  <2>5. FlowFrame(prog, MetNow \union {d.at}, new)
    BY <2>2 DEF FlowFrame
  <2>6. FlowFrames(prog, MetNow \union {d.at}, stack')
    <3>1. FlowFrames(prog, MetNow \union {d.at}, st)
      BY <1>1, FramesKeep
    <3>2. stack' = Append(st, new)
      BY <1>2, <1>5
    <3> QED
      BY <1>1, <2>2, <2>5, <3>1, <3>2, PushShape
  <2>7. Settling(prog, Marks', MetNow', Values, Links, stack')
    BY <1>1, <1>2, <1>5, <2>1, <2>4 DEF Settling
  <2>8. Shape(Marks', MetNow', Values) /\ Marks \subseteq Marks'
    BY <1>1, <1>2, <1>5 DEF Shape
  <2> QED
    BY <1>1, <1>2, <1>5, <2>6, <2>7, <2>8, SoundAgain
<1> QED
  BY <1>4, <1>5
-----------------------------------------------------------------------------
(* The steps of a statement.                                               *)

LEMMA StatementSettles ==
  ASSUME Acting, top.stage \in {"funptr", "base", "stmt"}, NEW f \in Frame, f.item = top.item,
         FlowFrame(prog, MetNow, f),
         UpToDate(prog, Marks, Values, Links, top, {}) => UpToDate(prog, Marks, Values, Links, f, {}),
         stack' = Replace(f), UNCHANGED onlyTop
  PROVE  Sound'
<1>1. \A k : ~Due(prog, Links, top, k)
  BY DEF Due
<1>2. \A k : Serves(prog, Marks, Values, Links, top, {}, k) => Serves(prog, Marks, Values, Links, f, {}, k)
  BY <1>1 DEF Serves
<1> QED
  BY <1>2, AloneSettles

(* The visits of a statement lead to the keys it asks.                     *)
LEMMA VisitsMeet ==
  ASSUME engine = "flow", NEW k
  PROVE  /\ \A d \in DirectKeys(Links, k) : \E x \in DirectVF(engine, k) : Source(x.edge, x.from.cur) = d
         /\ \A v : \A g \in Links : g.dst = k.loc /\ ~g.ind /\ g.src = v =>
              \E x \in OperandVF(engine, k, v) : Source(x.edge, x.from.cur) = Source(g, None)
         /\ \A d \in MemoryKeys(prog, Links, k, k.cur) :
              \E x \in IndirectVF(engine, k) : Source(x.edge, x.from.cur) = d
         /\ \A x \in DirectVF(engine, k) : ~x.edge.ind
         /\ \A v : \A x \in OperandVF(engine, k, v) : ~x.edge.ind
         /\ \A x \in IndirectVF(engine, k) : x.from = k
<1> DEFINE X(g) == [edge |-> g, from |-> k]
<1>1. \A g : X(g).edge = g /\ X(g).from = k
  OBVIOUS
<1>2. DirectVF(engine, k) = {X(g) : g \in {y \in Links : y.dst = k.loc /\ ~y.ind}}
  BY DEF DirectVF, Links
<1>3. IndirectVF(engine, k) = {X(g) : g \in {y \in Links : /\ y.dst = k.loc /\ y.ind /\ k.cur \in y.guard
                                                           /\ k.cur \notin prog.opaque}}
  BY DEF IndirectVF, Links
<1> HIDE DEF X
<1>4. \A g : ~g.ind => Source(X(g).edge, X(g).from.cur) = Source(g, None)
  BY <1>1 DEF Source
<1>5. \A g : Source(X(g).edge, X(g).from.cur) = Source(g, k.cur)
  BY <1>1
<1>6. \A d \in DirectKeys(Links, k) : \E x \in DirectVF(engine, k) : Source(x.edge, x.from.cur) = d
  BY <1>2, <1>4 DEF DirectKeys
<1>7. \A v : \A g \in Links : g.dst = k.loc /\ ~g.ind /\ g.src = v =>
        \E x \in OperandVF(engine, k, v) : Source(x.edge, x.from.cur) = Source(g, None)
  <2> SUFFICES ASSUME NEW g \in Links, g.dst = k.loc, ~g.ind
               PROVE  \E x \in OperandVF(engine, k, g.src) : Source(x.edge, x.from.cur) = Source(g, None)
    OBVIOUS
  <2>1. X(g) \in OperandVF(engine, k, g.src)
    BY <1>1, <1>2 DEF OperandVF
  <2> QED
    BY <1>4, <2>1
<1>8. \A d \in MemoryKeys(prog, Links, k, k.cur) :
        \E x \in IndirectVF(engine, k) : Source(x.edge, x.from.cur) = d
  BY <1>3, <1>5 DEF MemoryKeys, MemoryEdges
<1>9. \A x \in DirectVF(engine, k) : ~x.edge.ind
  BY <1>1, <1>2
<1>10. \A v : \A x \in OperandVF(engine, k, v) : ~x.edge.ind
  BY <1>9 DEF OperandVF
<1> QED
  BY <1>1, <1>3, <1>6, <1>7, <1>8, <1>9, <1>10

LEMMA MemoryMeet ==
  ASSUME engine = "flow", NEW k
  PROVE  /\ \A x \in IndirectVF(engine, k) : x.from = k
         /\ \A d \in MemoryKeys(prog, Links, k, k.cur) :
              \E x \in IndirectVF(engine, k) : Source(x.edge, x.from.cur) = d
BY VisitsMeet

LEMMA ResolveFunPtrSettles ==
  ASSUME Acting, beyond["flow"] = {}, ~oob'["flow"], NEW v \in Var, ResolveFunPtr(v)
  PROVE  Sound'
<1> DEFINE f == [top EXCEPT !.funs = @ \ {v}]
           d == ItemOf(v, top.item.at.cxt, top.item.conc)
<1>1. top \in Frame /\ FlowFrame(prog, MetNow, top) /\ top.stage = "funptr"
  BY ActingParts DEF ResolveFunPtr, Running
<1>2. d \in Item /\ d.at = KeyOf(v, v)
  <2>1. d \in Item
    BY <1>1, ItemParts, ItemOfType
  <2> QED
    BY <1>1, <2>1 DEF ItemOf, KeyOf, FlowFrame, FlowKey
<1>3. FlowKey(d.at)
  BY <1>2, NamesAssumption DEF FlowKey, KeyOf
<1>4. f \in Frame /\ f.item = top.item /\ FlowFrame(prog, MetNow, f) /\ f.stage = "funptr"
      /\ f.funs = top.funs \ {v}
  BY <1>1 DEF Frame, FlowFrame
<1>5. FindPT(d, Marks, Replace(f)) /\ UNCHANGED <<inQuery, cache, graph>>
  BY DEF ResolveFunPtr, Acting, Marks
<1> HIDE DEF f, d
<1>6. UpToDate(prog, Marks, Values, Links, top, {})
        => UpToDate(prog, Marks \union {d.at}, Values, Links, f, {d.at})
  BY <1>1, <1>2, <1>4 DEF UpToDate
<1>7. \A k : Serves(prog, Marks, Values, Links, top, {}, k)
               => Serves(prog, Marks \union {d.at}, Values, Links, f, {d.at}, k)
  BY <1>1, <1>4, <1>6 DEF Serves, Due
<1> QED
  BY <1>2, <1>3, <1>4, <1>5, <1>7, CallSettles

LEMMA BackwardPropDpmSettles ==
  ASSUME Acting, beyond["flow"] = {}, ~oob'["flow"], NEW x \in top.visits, BackwardPropDpm(x)
  PROVE  Sound'
<1> DEFINE g == x.edge
           s == top.item.at.cxt
           f == [top EXCEPT !.visits = @ \ {x}]
           d == [at |-> [loc |-> g.src, cur |-> IF g.ind THEN x.from.cur ELSE g.src,
                         cxt |-> Context(Now, s, g)],
                 conc |-> Concrete(Now, s, top.item.conc, g)]
<1>1. top \in Frame /\ FlowFrame(prog, MetNow, top) /\ Valid
  BY ActingParts DEF Acting
<1>2. Feasible(Now, s, g) /\ Context(Now, s, g) = <<>>
  <2>1. Now.by = "flow" /\ s = <<>>
    BY <1>1 DEF Now, View, Acting, FlowFrame, FlowKey
  <2> QED
    BY <2>1 DEF Feasible, Unbalanced, Repeated, Context, Plain
<1>3. d \in Item /\ d.at = Source(g, x.from.cur)
  <2>1. d \in Item
    BY <1>1, SourceType
  <2> QED
    BY <1>2, <2>1 DEF Source, KeyOf
<1>4. FlowKey(d.at)
  <2>1. g \in Edge /\ (g.ind => x.from.cur \in Obj)
    BY <1>1 DEF Frame, Visit, FlowFrame
  <2> QED
    BY <1>3, <2>1, NamesAssumption DEF Edge, FlowKey, Source, KeyOf
<1>5. /\ f \in Frame /\ f.item = top.item /\ FlowFrame(prog, MetNow, f) /\ f.visits = top.visits \ {x}
      /\ f.stage = top.stage /\ f.funs = top.funs /\ f.base = top.base /\ f.pts = top.pts
      /\ f.objs = top.objs /\ f.weak = top.weak /\ f.items = top.items /\ f.edges = top.edges
  BY <1>1 DEF Frame, FlowFrame
<1>6. FindPT(d, Marks, Replace(f)) /\ UNCHANGED <<inQuery, cache, graph>>
  BY <1>2 DEF BackwardPropDpm, Acting, Marks
<1> HIDE DEF f, d
<1>7. \A b : Visiting(top, b) => Visiting(f, b) \/ b = d.at
  BY <1>3, <1>5 DEF Visiting
<1>8. \A S, b : Got(Marks, Values, b, S, {}) => Got(Marks \union {d.at}, Values, b, S, {d.at})
  BY DEF Got
<1>9. \A S : Got(Marks \union {d.at}, Values, d.at, S, {d.at})
  BY DEF Got
<1>10. \A b : Later(prog, Links, top, b) => Later(prog, Links, f, b)
  BY <1>5 DEF Later
<1>11. UpToDate(prog, Marks, Values, Links, top, {})
         => UpToDate(prog, Marks \union {d.at}, Values, Links, f, {d.at})
  BY <1>5, <1>7, <1>8, <1>9, <1>10 DEF UpToDate
<1>12. \A k : Serves(prog, Marks, Values, Links, top, {}, k)
                => Serves(prog, Marks \union {d.at}, Values, Links, f, {d.at}, k)
  BY <1>5, <1>11 DEF Serves, Due
<1> QED
  BY <1>3, <1>4, <1>5, <1>6, <1>12, CallSettles

LEMMA BaseDoneSettles ==
  ASSUME Acting, BaseDone
  PROVE  Sound'
<1> DEFINE f == [top EXCEPT !.stage = "stmt", !.into = "pts", !.objs = top.base]
           k == top.item.at
<1>1. top \in Frame /\ FlowFrame(prog, MetNow, top) /\ top.stage = "base" /\ top.visits = {} /\ k \in Key
  BY ActingParts DEF BaseDone, Idle, Running
<1>2. /\ f \in Frame /\ f.item = top.item /\ f.stage = "stmt" /\ f.into = "pts" /\ f.base = top.base
      /\ f.objs = top.base /\ f.pts = top.pts /\ f.visits = top.visits /\ f.weak = top.weak
      /\ f.items = top.items
  BY <1>1 DEF Frame, Stage
<1> HIDE DEF f
<1>3. FlowFrame(prog, MetNow, f) /\ prog.kind[k.loc] \in {"load", "store"}
  BY <1>1, <1>2 DEF FlowFrame
<1>4. UpToDate(prog, Marks, Values, Links, top, {}) => UpToDate(prog, Marks, Values, Links, f, {})
  <2> SUFFICES ASSUME UpToDate(prog, Marks, Values, Links, top, {})
               PROVE  UpToDate(prog, Marks, Values, Links, f, {})
    OBVIOUS
  <2>1. \A b \in PointerKeys(prog, Links, k) : b \in Marks /\ Found(Values, b) \subseteq Ids(f.base)
    BY <1>1, <1>2 DEF UpToDate, Visiting, Got
  <2>2. \A b \in FlowInto(prog, Links, k, Ids(f.base)) : Later(prog, Links, f, b)
    <3>1. FlowInto(prog, Links, k, Ids(f.base))
            = UNION {FlowFor(prog, Links, k, Ids(f.base), o) : o \in Ids(f.base)}
      BY <1>3 DEF FlowInto
    <3>2. \A b : \A o \in Ids(f.base) :
            b \in FlowFor(prog, Links, k, Ids(f.base), o) => Later(prog, Links, f, b)
      BY <1>2 DEF Later, Ids
    <3> QED
      BY <3>1, <3>2
  <2> QED
    BY <1>1, <1>2, <1>3, <2>1, <2>2 DEF UpToDate
<1> QED
  BY <1>1, <1>2, <1>3, <1>4, StatementSettles DEF BaseDone, f

LEMMA BeginStatementSettles ==
  ASSUME Acting, BeginStatement
  PROVE  Sound'
<1> DEFINE k == top.item.at
           n == k.loc
           kind == prog.kind[n]
           Known == \A v \in prog.resolves[n] : KeyOf(v, v) \in Marks
           Good(f) == /\ f \in Frame /\ f.item = top.item /\ FlowFrame(prog, MetNow, f)
                      /\ Known => UpToDate(prog, Marks, Values, Links, f, {})
<1>1. /\ top \in Frame /\ FlowFrame(prog, MetNow, top) /\ top.stage = "funptr" /\ top.funs = {}
      /\ Valid /\ engine = "flow"
  BY ActingParts DEF BeginStatement, Running, Acting
<1>2. k \in Key /\ n \in Node /\ FlowKey(k) /\ k.cxt = <<>>
  BY <1>1, ItemParts DEF FlowFrame, FlowKey
<1>3. \A v : /\ DirectVF(engine, k) \in SUBSET Visit /\ OperandVF(engine, k, v) \in SUBSET Visit
            /\ IndirectVF(engine, k) \in SUBSET Visit
  BY <1>1, <1>2, VisitTypes
<1>4. kind \in {"addr", "copy", "gep", "load", "store", "mr"} /\ (n \in Mem <=> kind \in {"store", "mr"})
  BY <1>1, <1>2, KindOf DEF Valid
<1>5. kind \in {"addr", "copy", "gep", "mr"} => PointerKeys(prog, Links, k) = {}
  BY DEF PointerKeys, PointerEdges
<1> HIDE DEF k
<1>6. ASSUME kind = "addr"
      PROVE  Good([top EXCEPT !.stage = "stmt",
                     !.pts = {[id |-> prog.obj[n], cxt |-> k.cxt, conc |-> top.item.conc]}])
  <2> DEFINE S == {[id |-> prog.obj[n], cxt |-> k.cxt, conc |-> top.item.conc]}
             f == [top EXCEPT !.stage = "stmt", !.pts = S]
  <2>1. n \in Var /\ prog.obj[n] \in Obj
    BY <1>1, <1>2, <1>4, <1>6, ProgramShape DEF Node, Valid
  <2>2. S \in SUBSET CVar /\ (\A c \in S : c.cxt = <<>>) /\ prog.obj[n] \in Ids(S)
    BY <1>1, <1>2, <2>1, EmptyCxt, ItemParts DEF CVar, Ids
  <2> HIDE DEF S
  <2>3. f \in Frame /\ f.item = top.item /\ f.stage = "stmt" /\ f.pts = S /\ FlowFrame(prog, MetNow, f)
    BY <1>1, <1>6, <2>2 DEF Frame, Stage, FlowFrame, k
  <2>4. FlowInto(prog, Links, k, Ids(f.base)) = {}
    BY <1>6 DEF FlowInto
  <2> HIDE DEF f
  <2>5. Known => UpToDate(prog, Marks, Values, Links, f, {})
    BY <1>5, <1>6, <2>2, <2>3, <2>4 DEF UpToDate, k
  <2> QED
    BY <2>3, <2>5 DEF f, S
<1>7. ASSUME NEW V \in SUBSET Visit, kind \in {"copy", "gep", "mr"},
             \A x \in V : x.edge.ind => x.from.cur \in Obj,
             \A d \in FlowInto(prog, Links, k, Ids(top.base)) : \E x \in V : Source(x.edge, x.from.cur) = d
      PROVE  Good([top EXCEPT !.stage = "stmt", !.into = "pts", !.visits = V])
  <2> DEFINE f == [top EXCEPT !.stage = "stmt", !.into = "pts", !.visits = V]
  <2>1. /\ f \in Frame /\ f.item = top.item /\ f.stage = "stmt" /\ f.visits = V /\ f.base = top.base
        /\ FlowFrame(prog, MetNow, f)
    BY <1>1, <1>7 DEF Frame, Stage, FlowFrame
  <2> HIDE DEF f
  <2>2. \A d \in FlowInto(prog, Links, k, Ids(f.base)) : Visiting(f, d)
    BY <1>7, <2>1 DEF Visiting
  <2>3. Known => UpToDate(prog, Marks, Values, Links, f, {})
    BY <1>5, <1>7, <2>1, <2>2 DEF UpToDate, k
  <2> QED
    BY <2>1, <2>3 DEF f
<1>8. ASSUME NEW V \in SUBSET Visit, kind \in {"load", "store"}, \A x \in V : ~x.edge.ind,
             \A d \in PointerKeys(prog, Links, k) : \E x \in V : Source(x.edge, x.from.cur) = d
      PROVE  Good([top EXCEPT !.stage = "base", !.into = "base", !.visits = V])
  <2> DEFINE f == [top EXCEPT !.stage = "base", !.into = "base", !.visits = V]
  <2>1. /\ f \in Frame /\ f.item = top.item /\ f.stage = "base" /\ f.visits = V
        /\ FlowFrame(prog, MetNow, f)
    BY <1>1, <1>8 DEF Frame, Stage, FlowFrame, k
  <2> HIDE DEF f
  <2>2. \A d \in PointerKeys(prog, Links, k) : Visiting(f, d)
    BY <1>8, <2>1 DEF Visiting
  <2>3. Known => UpToDate(prog, Marks, Values, Links, f, {})
    BY <2>1, <2>2 DEF UpToDate, k
  <2> QED
    BY <2>1, <2>3 DEF f
<1>9. UpToDate(prog, Marks, Values, Links, top, {}) => Known
  BY <1>1 DEF UpToDate, k
<1>10. kind \in {"load", "store"} =>
         \A d \in PointerKeys(prog, Links, k) :
           \E x \in OperandVF(engine, k, PointerTo(prog, n)) : Source(x.edge, x.from.cur) = d
  BY <1>1, VisitsMeet DEF PointerKeys, PointerEdges
<1> HIDE DEF n, kind, Good, Known
<1>11. PICK f : Good(f) /\ stack' = Replace(f)
  <2>1. CASE kind = "addr"
    BY <1>6, <2>1 DEF BeginStatement, k, n, kind
  <2>2. CASE kind \in {"copy", "gep"}
    <3>1. FlowInto(prog, Links, k, Ids(top.base)) = DirectKeys(Links, k)
      BY <2>2 DEF FlowInto, kind, n
    <3>2. /\ \A x \in DirectVF(engine, k) : ~x.edge.ind
          /\ \A d \in FlowInto(prog, Links, k, Ids(top.base)) :
               \E x \in DirectVF(engine, k) : Source(x.edge, x.from.cur) = d
      BY <1>1, <3>1, VisitsMeet
    <3>3. Good([top EXCEPT !.stage = "stmt", !.into = "pts", !.visits = DirectVF(engine, k)])
      BY <1>3, <1>7, <2>2, <3>2
    <3> QED
      BY <2>2, <3>3 DEF BeginStatement, k, n, kind
  <2>3. CASE kind = "mr"
    <3>1. FlowInto(prog, Links, k, Ids(top.base)) = MemoryKeys(prog, Links, k, k.cur)
      BY <2>3 DEF FlowInto, kind, n
    <3>2. k.cur \in Obj
      BY <1>2, <1>4, <2>3 DEF FlowKey, n
    <3>3. /\ \A x \in IndirectVF(engine, k) : x.from.cur \in Obj
          /\ \A d \in FlowInto(prog, Links, k, Ids(top.base)) :
               \E x \in IndirectVF(engine, k) : Source(x.edge, x.from.cur) = d
      BY <1>1, <3>1, <3>2, MemoryMeet
    <3>4. Good([top EXCEPT !.stage = "stmt", !.into = "pts", !.visits = IndirectVF(engine, k)])
      BY <1>3, <1>7, <2>3, <3>3
    <3> QED
      BY <2>3, <3>4 DEF BeginStatement, k, n, kind
  <2>4. CASE kind = "load"
    <3>1. PointerTo(prog, n) = prog.src[n]
      BY <2>4 DEF PointerTo, kind
    <3>2. Good([top EXCEPT !.stage = "base", !.into = "base",
                           !.visits = OperandVF(engine, k, prog.src[n])])
      BY <1>1, <1>3, <1>8, <1>10, <2>4, <3>1, VisitsMeet
    <3> QED
      BY <2>4, <3>2 DEF BeginStatement, k, n, kind
  <2>5. CASE kind = "store"
    <3>1. PointerTo(prog, n) = prog.dst[n]
      BY <2>5 DEF PointerTo, kind
    <3>2. Good([top EXCEPT !.stage = "base", !.into = "base",
                           !.visits = OperandVF(engine, k, prog.dst[n])])
      BY <1>1, <1>3, <1>8, <1>10, <2>5, <3>1, VisitsMeet
    <3> QED
      BY <2>5, <3>2 DEF BeginStatement, k, n, kind
  <2> QED
    BY <1>4, <2>1, <2>2, <2>3, <2>4, <2>5
<1>12. f \in Frame /\ f.item = top.item /\ FlowFrame(prog, MetNow, f)
       /\ (UpToDate(prog, Marks, Values, Links, top, {}) => UpToDate(prog, Marks, Values, Links, f, {}))
  BY <1>9, <1>11 DEF Good
<1> QED
  BY <1>1, <1>11, <1>12, StatementSettles DEF BeginStatement

(* The next object: what it makes flow is visited, or comes later.         *)
LEMMA ObjectSettles ==
  ASSUME Acting, top.stage = "stmt", top.visits = {}, NEW c \in top.objs,
         NEW f \in Frame, f.item = top.item, f.stage = "stmt", f.into = top.into, f.pts = top.pts,
         f.base = top.base, f.objs = top.objs \ {c}, f.items = top.items,
         f.weak # None => top.item.at.cur \in Ids(top.base), top.weak = None \/ f.weak = top.weak,
         \A x \in f.visits : x.edge.ind => x.from.cur \in Obj,
         \A d \in FlowFor(prog, Links, top.item.at, Ids(top.base), c.id) :
           \/ Visiting(f, d)
           \/ /\ f.weak # None /\ ~Sure(prog, top.item.at, Ids(top.base))
              /\ d \in MemoryKeys(prog, Links, top.item.at, top.item.at.cur),
         stack' = Replace(f), UNCHANGED onlyTop
  PROVE  Sound'
<1> DEFINE k == top.item.at
<1>1. top \in Frame /\ FlowFrame(prog, MetNow, top)
  BY ActingParts
<1>2. FlowFrame(prog, MetNow, f)
  BY <1>1 DEF FlowFrame
<1>3. \A d : Later(prog, Links, top, d) => Visiting(f, d) \/ Later(prog, Links, f, d)
  BY DEF Later
<1>4. \A d : ~Visiting(top, d)
  BY DEF Visiting
<1>5. UpToDate(prog, Marks, Values, Links, top, {}) => UpToDate(prog, Marks, Values, Links, f, {})
  BY <1>3, <1>4 DEF UpToDate
<1> QED
  BY <1>2, <1>5, StatementSettles

LEMMA LoadObjectSettles ==
  ASSUME Acting, NEW c \in top.objs, LoadObject(c)
  PROVE  Sound'
<1> DEFINE j == top.item.at
           k == ObjKey(j, c)
           f == [Rest(c) EXCEPT !.visits = IndirectVF(engine, k)]
<1>1. top \in Frame /\ FlowFrame(prog, MetNow, top) /\ Valid /\ engine = "flow"
  BY ActingParts DEF Acting
<1>2. /\ top.stage = "stmt" /\ top.visits = {} /\ prog.kind[j.loc] = "load" /\ j \in Key
      /\ j.loc \notin Mem
  BY <1>1, KindOf, ItemParts DEF LoadObject, Idle, Running, Valid
<1>3. c \in CVar /\ c.id \in Obj /\ k \in Key /\ k.loc = j.loc /\ k.cur = c.id
  BY <1>1, <1>2, ItemParts DEF Frame, CVar, ObjKey, Key
<1>4. /\ f \in Frame /\ f.item = top.item /\ f.stage = "stmt" /\ f.into = top.into /\ f.pts = top.pts
      /\ f.base = top.base /\ f.objs = top.objs \ {c} /\ f.items = top.items /\ f.weak = top.weak
      /\ f.visits = IndirectVF(engine, k)
  BY <1>1, <1>2, <1>3, VisitTypes DEF Rest, Frame
<1> HIDE DEF f, k
<1>5. \A d \in FlowFor(prog, Links, j, Ids(top.base), c.id) : Visiting(f, d)
  <2>1. FlowFor(prog, Links, j, Ids(top.base), c.id) = MemoryKeys(prog, Links, k, k.cur)
    BY <1>2, <1>3 DEF FlowFor, MemoryKeys, MemoryEdges
  <2> QED
    BY <1>1, <1>4, <2>1, MemoryMeet DEF Visiting
<1>6. \A x \in f.visits : x.from.cur \in Obj
  BY <1>1, <1>3, <1>4, MemoryMeet
<1>7. f.weak # None => j.cur \in Ids(top.base)
  BY <1>1, <1>4 DEF FlowFrame
<1> QED
  BY <1>2, <1>4, <1>5, <1>6, <1>7, ObjectSettles DEF LoadObject, f, k

(* As long as the calls found close no recursion, FlowDDA overwrites where *)
(* a strong update is sure.                                                *)
LEMMA SureNow ==
  ASSUME Acting, RecursionKnown(called["flow"]), NEW k, NEW B \in SUBSET CVar,
         \A c \in B : c.cxt = <<>>, k.cur \in Ids(B)
  PROVE  StrongUpdate(Now, B) <=> Sure(prog, k, Ids(B))
<1> DEFINE v == View(prog, prog.calls, prog.calls, "flow")
           w == View(prog, called["flow"], called["flow"], "flow")
<1>1. /\ Now.prog = prog /\ Now.called = called["flow"] /\ Now.scc = sccCalls["flow"] /\ Now.by = "flow"
      /\ v.prog = prog /\ v.called = prog.calls /\ v.scc = prog.calls
      /\ w.prog = prog /\ w.called = called["flow"] /\ w.scc = called["flow"]
      /\ prog.calls \subseteq sccCalls["flow"] /\ sccCalls["flow"] \subseteq called["flow"]
  BY DEF Now, View, Acting, Sound, Linked
<1>2. \A o \in Obj : LocalInRecursion(w, o) => LocalInRecursion(v, o)
  BY DEF RecursionKnown
<1> HIDE DEF v, w
<1>3. \A o \in Obj : LocalInRecursion(Now, o) <=> LocalInRecursion(v, o)
  <2> TAKE o \in Obj
  <2>1. LocalInRecursion(v, o) => LocalInRecursion(Now, o)
    BY <1>1, MoreRecursion
  <2>2. LocalInRecursion(Now, o) => LocalInRecursion(w, o)
    BY <1>1, MoreRecursion
  <2> QED
    BY <1>2, <2>1, <2>2
<1>4. Sure(prog, k, Ids(B)) <=> /\ Ids(B) = {k.cur} /\ k.cur \notin prog.weak \union prog.heap
                                /\ ~LocalInRecursion(v, k.cur)
  BY DEF Sure, v
<1>5. \A c, d \in B : SameElement(c, d) <=> c.id = d.id
  BY DEF SameElement
<1>6. PICK b \in B : b.id = k.cur
  BY DEF Ids
<1>7. k.cur \in Obj
  BY <1>6 DEF CVar
<1>8. ASSUME StrongUpdate(Now, B) PROVE Sure(prog, k, Ids(B))
  <2>1. PICK c \in B : /\ \A d \in B : c.id = d.id
                       /\ c.id \notin prog.weak /\ c.id \notin prog.heap /\ ~LocalInRecursion(Now, c.id)
    BY <1>1, <1>5, <1>8 DEF StrongUpdate
  <2>2. c.id = k.cur /\ Ids(B) = {k.cur}
    BY <1>6, <2>1 DEF Ids
  <2> QED
    BY <1>3, <1>4, <1>7, <2>1, <2>2
<1>9. ASSUME Sure(prog, k, Ids(B)) PROVE StrongUpdate(Now, B)
  <2>1. \A d \in B : d.id = k.cur
    BY <1>4, <1>9 DEF Ids
  <2>2. \A d \in B : SameElement(b, d)
    BY <1>5, <1>6, <2>1
  <2>3. b.id \notin prog.weak /\ b.id \notin prog.heap /\ ~LocalInRecursion(Now, b.id)
    BY <1>3, <1>4, <1>6, <1>7, <1>9
  <2> QED
    BY <1>1, <2>2, <2>3 DEF StrongUpdate
<1> QED
  BY <1>8, <1>9

LEMMA StoreObjectSettles ==
  ASSUME Acting, IInv, NEW c \in top.objs, StoreObject(c)
  PROVE  Sound'
<1> DEFINE k == top.item.at
           V == OperandVF(engine, k, prog.src[k.loc])
           W == IndirectVF(engine, k)
           g == [Rest(c) EXCEPT !.weak = c, !.visits = V]
           h == [Rest(c) EXCEPT !.visits = W]
<1>1. /\ top \in Frame /\ FlowFrame(prog, MetNow, top) /\ Valid /\ engine = "flow" /\ k \in Key
  BY ActingParts DEF Acting
<1>2. /\ top.stage = "stmt" /\ top.visits = {} /\ prog.kind[k.loc] = "store" /\ top.weak = None
      /\ c \in CVar /\ c # None /\ c \in top.base
  BY <1>1, NoneAssumption DEF StoreObject, Idle, Running, Frame, FlowFrame
<1>3. k.loc \in Mem /\ k.cur \in Obj
  BY <1>1, <1>2, KindOf DEF FlowFrame, FlowKey, Valid
<1>4. PICK m \in loadVar[engine] :
        /\ m.at = k
        /\ \/ SameVar(Now, c, m.var) /\ stack' = Replace(g)
           \/ ~SameVar(Now, c, m.var) /\ stack' = Replace(h)
  BY DEF StoreObject
<1>5. SameVar(Now, c, m.var) <=> c.id = k.cur
  <2>1. m.var.id = k.cur
    BY <1>1, <1>4 DEF IInv, LoadVarFine, Engine
  <2>2. Now.by = "flow"
    BY <1>1 DEF Now, View
  <2> QED
    BY <2>1, <2>2 DEF SameVar
<1>6. V \in SUBSET Visit /\ W \in SUBSET Visit
  BY <1>1, VisitTypes
<1>7. CASE c.id = k.cur
  <2>1. /\ g \in Frame /\ g.item = top.item /\ g.stage = "stmt" /\ g.into = top.into /\ g.pts = top.pts
        /\ g.base = top.base /\ g.objs = top.objs \ {c} /\ g.items = top.items /\ g.weak = c /\ g.visits = V
    BY <1>1, <1>2, <1>6 DEF Rest, Frame
  <2>2. k.cur \in Ids(top.base)
    BY <1>2, <1>7 DEF Ids
  <2>3. \A d \in StoredKeys(prog, Links, k) : \E x \in V : Source(x.edge, x.from.cur) = d
    BY <1>1, VisitsMeet DEF StoredKeys, StoredEdges
  <2>4. \A x \in V : ~x.edge.ind
    BY <1>1, VisitsMeet
  <2> HIDE DEF g, V
  <2>5. \A d \in FlowFor(prog, Links, k, Ids(top.base), c.id) :
          \/ Visiting(g, d)
          \/ g.weak # None /\ ~Sure(prog, k, Ids(top.base)) /\ d \in MemoryKeys(prog, Links, k, k.cur)
    BY <1>2, <2>1, <2>3 DEF FlowFor, Visiting
  <2> QED
    BY <1>2, <1>4, <1>5, <1>7, <2>1, <2>2, <2>4, <2>5, ObjectSettles DEF StoreObject
<1>8. CASE c.id # k.cur
  <2>1. /\ h \in Frame /\ h.item = top.item /\ h.stage = "stmt" /\ h.into = top.into /\ h.pts = top.pts
        /\ h.base = top.base /\ h.objs = top.objs \ {c} /\ h.items = top.items
        /\ h.weak = None /\ h.visits = W
    BY <1>1, <1>2, <1>6 DEF Rest, Frame
  <2>2. /\ \A d \in MemoryKeys(prog, Links, k, k.cur) : \E x \in W : Source(x.edge, x.from.cur) = d
        /\ \A x \in W : x.from.cur \in Obj
    BY <1>1, <1>3, MemoryMeet
  <2> HIDE DEF h, W
  <2>3. \A d \in FlowFor(prog, Links, k, Ids(top.base), c.id) : Visiting(h, d)
    BY <1>2, <1>8, <2>1, <2>2 DEF FlowFor, Visiting
  <2> QED
    BY <1>2, <1>4, <1>5, <1>8, <2>1, <2>2, <2>3, ObjectSettles DEF StoreObject
<1> QED
  BY <1>7, <1>8

LEMMA OldValuesSettles ==
  ASSUME Acting, RecursionKnown(called["flow"]), OldValues
  PROVE  Sound'
<1> DEFINE k == top.item.at
           W == IndirectVF(engine, k)
           g == [top EXCEPT !.weak = None]
           h == [top EXCEPT !.weak = None, !.visits = W]
<1>1. /\ top \in Frame /\ FlowFrame(prog, MetNow, top) /\ Valid /\ engine = "flow" /\ k \in Key
  BY ActingParts DEF Acting
<1>2. top.stage = "stmt" /\ top.visits = {} /\ top.weak # None
  BY DEF OldValues, Idle, Running
<1>3. /\ top.base \in SUBSET CVar /\ (\A c \in top.base : c.cxt = <<>>) /\ k.cur \in Ids(top.base)
      /\ k.cur \in Obj
  BY <1>1, <1>2 DEF Frame, FlowFrame, Ids, CVar
<1>4. StrongUpdate(Now, top.base) <=> Sure(prog, k, Ids(top.base))
  BY <1>3, SureNow
<1>5. CASE Sure(prog, k, Ids(top.base))
  <2>1. stack' = Replace(g)
    BY <1>4, <1>5 DEF OldValues
  <2>2. /\ g \in Frame /\ g.item = top.item /\ g.stage = top.stage /\ g.into = top.into /\ g.pts = top.pts
        /\ g.base = top.base /\ g.objs = top.objs /\ g.items = top.items /\ g.weak = None
        /\ g.visits = top.visits
    BY <1>1 DEF Frame
  <2> HIDE DEF g
  <2>3. FlowFrame(prog, MetNow, g)
    BY <1>1, <2>2 DEF FlowFrame
  <2>4. \A d : Later(prog, Links, top, d) => Later(prog, Links, g, d)
    BY <1>5, <2>2 DEF Later
  <2>5. UpToDate(prog, Marks, Values, Links, top, {}) => UpToDate(prog, Marks, Values, Links, g, {})
    BY <1>2, <2>2, <2>4 DEF UpToDate, Visiting
  <2> QED
    BY <1>2, <2>1, <2>2, <2>3, <2>5, StatementSettles DEF OldValues
<1>6. CASE ~Sure(prog, k, Ids(top.base))
  <2>1. stack' = Replace(h)
    BY <1>4, <1>6 DEF OldValues
  <2>2. W \in SUBSET Visit
    BY <1>1, VisitTypes
  <2>3. /\ h \in Frame /\ h.item = top.item /\ h.stage = top.stage /\ h.into = top.into /\ h.pts = top.pts
        /\ h.base = top.base /\ h.objs = top.objs /\ h.items = top.items /\ h.weak = None
        /\ h.visits = W
    BY <1>1, <2>2 DEF Frame
  <2>4. /\ \A d \in MemoryKeys(prog, Links, k, k.cur) : \E x \in W : Source(x.edge, x.from.cur) = d
        /\ \A x \in W : x.from.cur \in Obj
    BY <1>1, <1>3, MemoryMeet
  <2> HIDE DEF h, W
  <2>5. FlowFrame(prog, MetNow, h)
    BY <1>1, <2>3, <2>4 DEF FlowFrame
  <2>6. \A d : Later(prog, Links, top, d) => Later(prog, Links, h, d) \/ Visiting(h, d)
    BY <2>3, <2>4 DEF Later, Visiting
  <2>7. \A d : ~Visiting(top, d)
    BY <1>2 DEF Visiting
  <2>8. UpToDate(prog, Marks, Values, Links, top, {}) => UpToDate(prog, Marks, Values, Links, h, {})
    BY <1>2, <2>3, <2>6, <2>7 DEF UpToDate
  <2> QED
    BY <1>2, <2>1, <2>3, <2>5, <2>8, StatementSettles DEF OldValues
<1> QED
  BY <1>5, <1>6
-----------------------------------------------------------------------------
(* The steps of a recomputation.                                           *)

LEMMA NextEdgeSettles ==
  ASSUME Acting, NEW g \in top.edges, NextEdge(g)
  PROVE  Sound'
<1> DEFINE k == top.item.at
           N == Affected(engine, k, g, top.stage = "new")
           f == [top EXCEPT !.edges = @ \ {g}, !.items = N]
<1>1. /\ top \in Frame /\ FlowFrame(prog, MetNow, top) /\ Valid /\ engine = "flow"
      /\ top.stage \in {"new", "out"} /\ top.items = {}
  BY ActingParts DEF Acting, NextEdge, Recomputing, Running
<1>2. N \in SUBSET Item /\ \A i \in N : i.at \in MetNow
  BY <1>1 DEF Affected, MetNow, Valid, TypeOK, Engine
<1>3. ASSUME NEW j \in MetNow, Hits(prog, top.stage = "new", g, k, j)
      PROVE  \E i \in N : i.at = j
  <2>1. PICK i \in recorded["flow"] : i.at = j
    BY DEF MetNow
  <2>2. i \in N
    BY <1>1, <1>3, <2>1 DEF Hits, Affected
  <2> QED
    BY <2>1, <2>2
<1> HIDE DEF N
<1>4. /\ f \in Frame /\ f.item = top.item /\ f.stage = top.stage /\ f.edges = top.edges \ {g}
      /\ f.items = N /\ FlowFrame(prog, MetNow, f)
  BY <1>1, <1>2 DEF Frame, FlowFrame
<1>5. stack' = Replace(f)
  BY DEF NextEdge, N
<1> HIDE DEF f
<1>6. \A j \in MetNow : Due(prog, Links, top, j) => Due(prog, Links, f, j)
  BY <1>1, <1>3, <1>4 DEF Due
<1>7. \A j : ~(top.item.at = j /\ UpToDate(prog, Marks, Values, Links, top, {}))
  BY <1>1 DEF UpToDate
<1>8. \A j \in MetNow : Serves(prog, Marks, Values, Links, top, {}, j)
                          => Serves(prog, Marks, Values, Links, f, {}, j)
  BY <1>6, <1>7 DEF Serves
<1> QED
  BY <1>4, <1>5, <1>8, AloneSettles DEF NextEdge

LEMMA OutEdgesSettles ==
  ASSUME Acting, OutEdges
  PROVE  Sound'
<1> DEFINE G == {g \in edges[engine] : g.src = top.item.at.loc}
           f == [top EXCEPT !.stage = "out", !.edges = G]
<1>1. /\ top \in Frame /\ FlowFrame(prog, MetNow, top) /\ Links \in SUBSET Edge
      /\ top.stage = "new" /\ top.items = {} /\ top.edges = {}
  BY ActingParts DEF OutEdges, Running
<1>2. G = {g \in Links : g.src = top.item.at.loc}
  BY DEF Links, Acting
<1> HIDE DEF G
<1>3. /\ f \in Frame /\ f.item = top.item /\ f.stage = "out" /\ f.edges = G /\ FlowFrame(prog, MetNow, f)
  BY <1>1, <1>2 DEF Frame, FlowFrame, Stage
<1>4. stack' = Replace(f)
  BY DEF OutEdges, G
<1> HIDE DEF f
<1>5. \A j : Due(prog, Links, top, j) => Feeds(prog, Links, top.item.at, j)
  BY <1>1 DEF Due
<1>6. \A j : Feeds(prog, Links, top.item.at, j) => Due(prog, Links, f, j)
  BY <1>2, <1>3 DEF Due, Feeds
<1>7. \A j : ~(top.item.at = j /\ UpToDate(prog, Marks, Values, Links, top, {}))
  BY <1>1 DEF UpToDate
<1>8. \A j \in MetNow : Serves(prog, Marks, Values, Links, top, {}, j)
                          => Serves(prog, Marks, Values, Links, f, {}, j)
  BY <1>5, <1>6, <1>7 DEF Serves
<1> QED
  BY <1>3, <1>4, <1>8, AloneSettles DEF OutEdges

LEMMA ReComputeSettles ==
  ASSUME Acting, beyond["flow"] = {}, ~oob'["flow"], NEW d \in top.items, ReCompute(d)
  PROVE  Sound'
<1> DEFINE f == [top EXCEPT !.items = @ \ {d}]
           vis == Marks \ {d.at}
<1>1. /\ top \in Frame /\ FlowFrame(prog, MetNow, top) /\ top.stage \in {"new", "out"}
      /\ Shape(Marks, MetNow, Values) /\ MetNow \subseteq Marks
  BY ActingParts DEF ReCompute, Recomputing, Running
<1>2. d \in Item /\ d.at \in MetNow /\ FlowKey(d.at)
  BY <1>1 DEF Frame, FlowFrame, Shape
<1>3. /\ f \in Frame /\ f.item = top.item /\ f.stage = top.stage /\ f.edges = top.edges
      /\ f.items = top.items \ {d} /\ FlowFrame(prog, MetNow, f)
  BY <1>1 DEF Frame, FlowFrame
<1>4. FindPT(d, vis, Replace(f)) /\ UNCHANGED <<inQuery, cache, graph>>
  BY DEF ReCompute, Acting, Marks
<1> HIDE DEF f, vis
<1>5. \A j : Due(prog, Links, top, j) => Due(prog, Links, f, j) \/ j = d.at
  BY <1>3 DEF Due
<1>6. \A j : ~(top.item.at = j /\ UpToDate(prog, Marks, Values, Links, top, {}))
  BY <1>1 DEF UpToDate
<1>7. \A j \in MetNow :
        Serves(prog, Marks, Values, Links, top, {}, j)
          => \/ Serves(prog, Marks \union {d.at}, Values, Links, f, {d.at}, j)
             \/ j = d.at /\ vis = Marks \ {d.at}
  BY <1>5, <1>6 DEF Serves, vis
<1> QED
  BY <1>2, <1>3, <1>4, <1>7, CallSettles DEF vis

(* The top activation returns.                                             *)
LEMMA PopSettles ==
  ASSUME Acting, UNCHANGED <<prog, queries, engine, visited, recorded, cache, graph>>,
         \A k : Serves(prog, Marks, Values, Links, top, {}, k) => Done(prog, Marks, Values, Links, k),
         stack' = Give(Below, CachedPts("flow", top.item.at))
  PROVE  Sound'
<1> DEFINE pts == CachedPts("flow", top.item.at)
<1>1. Marks' = Marks /\ MetNow' = MetNow
  BY DEF Marks, MetNow
<1>2. /\ pts \in SUBSET CVar /\ Found(Values, top.item.at) \subseteq Ids(pts) /\ \A c \in pts : c.cxt = <<>>
  BY ActingParts, CachedFound
<1> HIDE DEF pts
<1>3. /\ FlowFrames(prog, MetNow, stack')
      /\ \A k : Served(prog, Marks, Values, Links, Below, {top.item.at}, k)
                  => Served(prog, Marks, Values, Links, stack', {}, k)
  BY <1>2, ActingParts, GiveServes DEF pts
<1>4. \A k \in MetNow : Served(prog, Marks, Values, Links, stack', {}, k)
  <2> TAKE k \in MetNow
  <2>1. Served(prog, Marks, Values, Links, Append(Below, top), {}, k)
    BY ActingParts
  <2>2. \/ Served(prog, Marks, Values, Links, Below, {top.item.at}, k)
        \/ Serves(prog, Marks, Values, Links, top, {}, k)
    BY <2>1, ActingParts, PopServes
  <2> QED
    BY <1>3, <2>2 DEF Served
<1>5. Settling(prog, Marks, MetNow, Values, Links, stack')
  BY <1>4, ActingParts DEF Settling
<1> QED
  BY <1>1, <1>3, <1>5, ActingParts, SoundAgain

LEMMA ReturnSettles ==
  ASSUME Acting, Return
  PROVE  Sound'
<1>1. top.stage = "out" /\ top.items = {} /\ top.edges = {} /\ engine = "flow"
  BY DEF Return, Running, Acting
<1>2. \A k : ~Serves(prog, Marks, Values, Links, top, {}, k)
  BY <1>1 DEF Serves, Due, UpToDate
<1> QED
  BY <1>1, <1>2, PopSettles DEF Return, onlyTop, inQuery

-----------------------------------------------------------------------------
(* The end of a statement.                                                 *)

Result == IF prog.kind[top.item.at.loc] = "gep" THEN GepPts(prog, top.item.at.loc, top.pts) ELSE top.pts

LEMMA ResultGives ==
  ASSUME Acting
  PROVE  /\ Result \in SUBSET CVar /\ \A c \in Result : c.cxt = <<>>
         /\ \A T : Ids(Result) \subseteq T => Gives(prog, top.item.at, Ids(top.pts), T)
<1> DEFINE n == top.item.at.loc
<1>1. top \in Frame /\ Valid /\ top.pts \in SUBSET CVar /\ \A c \in top.pts : c.cxt = <<>>
  BY ActingParts DEF Acting, FlowFrame, Frame
<1>2. Result \in SUBSET CVar
  BY <1>1, StatementPts DEF Result
<1>3. \A c \in Result : c.cxt = <<>>
  BY <1>1, GepPtsCxt DEF Result
<1>4. ASSUME NEW T, Ids(Result) \subseteq T, prog.kind[n] = "gep", NEW c \in top.pts
      PROVE  prog.field[n][c.id] \in T
  <2>1. PICK d \in GepPts(prog, n, top.pts) : d.id = prog.field[n][c.id]
    BY <1>1, GepPtsAll
  <2> QED
    BY <1>4, <2>1 DEF Result, Ids
<1>5. ASSUME NEW T, Ids(Result) \subseteq T PROVE Gives(prog, top.item.at, Ids(top.pts), T)
  BY <1>4, <1>5 DEF Gives, Ids, Result
<1> QED
  BY <1>2, <1>3, <1>5

(* The cache has the values already.                                       *)
LEMMA KnownSettles ==
  ASSUME Acting, EndStatement,
         UnionPts(CachedPts("flow", top.item.at), Result) = CachedPts("flow", top.item.at)
  PROVE  Sound'
<1> DEFINE k == top.item.at
           old == CachedPts("flow", k)
<1>1. /\ top.stage = "stmt" /\ top.visits = {} /\ top.weak = None /\ top.objs = {} /\ engine = "flow"
      /\ UNCHANGED inQuery
  BY DEF EndStatement, Idle, Running, Acting
<1>2. UpdateCachedPointsTo("flow", top.item, Result, Below)
  BY <1>1 DEF EndStatement, Result
<1>3. stack' = Give(Below, old) /\ UNCHANGED <<cache, graph>>
  BY <1>2 DEF UpdateCachedPointsTo
<1>4. Ids(old) = Found(Values, k) /\ prog \in Programs /\ k \in Key
  BY ActingParts, CachedFound
<1>5. Ids(Result) \subseteq Found(Values, k)
  <2>1. Ids(Result) \subseteq Ids(UnionPts(old, Result))
    BY DEF UnionPts, Ids, SameElement
  <2> QED
    BY <1>4, <2>1
<1>6. UpToDate(prog, Marks, Values, Links, top, {}) => Done(prog, Marks, Values, Links, k)
  <2>1. Gives(prog, k, Ids(top.pts), Found(Values, k))
    BY <1>5, ResultGives
  <2> QED
    BY <1>1, <1>4, <2>1, FinishDone
<1>7. \A j : Serves(prog, Marks, Values, Links, top, {}, j) => Done(prog, Marks, Values, Links, j)
  BY <1>1, <1>6 DEF Serves, Due
<1> QED
  BY <1>1, <1>3, <1>7, PopSettles DEF EndStatement, inQuery

(* The cache grows at the key of the statement, and with it the graph: by  *)
(* the edges of the calls N that the new values decide.                    *)
GrownBy(N) ==
  LET j == top.item.at IN
  /\ \A d : Found(Values, d) \subseteq Found(Values', d) /\ (d # j => Found(Values', d) = Found(Values, d))
  /\ Ids(Result) \subseteq Found(Values', j)
  /\ \A m \in Values' : m \in Values \/ (m.at = j /\ m.to.cxt = <<>>)
  /\ \A c \in N : c.fp = j.cur /\ c.target \in Found(Values', j)
  /\ \A c \in prog.icalls :
       c.fp = j.cur /\ c.target \in Found(Values', j) => c \in N \/ c.id \in called["flow"]
  /\ Links' = Links \union UNION {c.edges : c \in N}
  /\ called'["flow"] = called["flow"] \union {c.id : c \in N}
  /\ sccCalls'["flow"] \in {sccCalls["flow"], called'["flow"]}
  /\ stack' = Append(Below, NewFrame(top.item, "new", Links' \ Links))

LEMMA GrownParts ==
  ASSUME Acting, EndStatement,
         UnionPts(CachedPts("flow", top.item.at), Result) # CachedPts("flow", top.item.at)
  PROVE  \E N \in SUBSET prog.icalls : GrownBy(N)
<1> DEFINE j == top.item.at
           old == CachedPts("flow", j)
           all == UnionPts(old, Result)
           N == {c \in prog.icalls : /\ c.fp = j.cur /\ \E o \in all : o.id = c.target
                                     /\ c.id \notin called["flow"]}
           connected == UNION {c.edges : c \in N}
           entries == {[at |-> j, to |-> c] : c \in all}
<1>1. UpdateCachedPointsTo("flow", top.item, Result, Below)
  BY DEF EndStatement, Result, Acting
<1>2. /\ cache' = [cache EXCEPT !["flow"] = @ \union entries]
      /\ edges' = [edges EXCEPT !["flow"] = @ \union connected]
      /\ called' = [called EXCEPT !["flow"] = @ \union {c.id : c \in N}]
      /\ sccCalls' = IF connected \subseteq edges["flow"] THEN sccCalls
                     ELSE [sccCalls EXCEPT !["flow"] = called'["flow"]]
      /\ stack' = Append(Below, NewFrame(top.item, "new", connected \ edges["flow"]))
  BY <1>1 DEF UpdateCachedPointsTo
<1>3. Valid /\ TypeOK /\ "flow" \in Engine /\ Shape(Marks, MetNow, Values)
  BY ActingParts DEF Acting
<1>4. /\ Ids(old) = Found(Values, j) /\ (\A c \in old : c.cxt = <<>>) /\ old \in SUBSET CVar
  BY <1>3, CachedFound
<1>5. (\A c \in all : c.cxt = <<>>) /\ Ids(Result) \subseteq Ids(all) /\ Ids(old) \subseteq Ids(all)
  <2>1. all \subseteq old \union Result /\ old \subseteq all
    BY UnionPtsSubset
  <2>2. Ids(Result) \subseteq Ids(all)
    BY DEF UnionPts, Ids, SameElement
  <2> HIDE DEF all, old
  <2> QED
    BY <1>4, <2>1, <2>2, ResultGives DEF Ids
<1> HIDE DEF all, old
<1>6. Values' = Values \union entries
  BY <1>2, <1>3 DEF Values, TypeOK
<1>7. \A m : m \in entries <=> \E c \in all : m = [at |-> j, to |-> c]
  OBVIOUS
<1>8. \A d : /\ Found(Values, d) \subseteq Found(Values', d)
             /\ d # j => Found(Values', d) = Found(Values, d)
  BY <1>6 DEF Found
<1>9. Found(Values', j) = Ids(all)
  <2>1. Ids(all) \subseteq Found(Values', j)
    <3>1. \A c \in all : /\ [at |-> j, to |-> c] \in {x \in Values' : x.at = j}
                         /\ [at |-> j, to |-> c].to.id = c.id
      BY <1>6, <1>7
    <3> QED
      BY <3>1 DEF Found, Ids
  <2>2. Found(Values', j) \subseteq Ids(all)
    <3> SUFFICES ASSUME NEW m \in Values', m.at = j PROVE m.to.id \in Ids(all)
      BY DEF Found
    <3>1. m \in Values => m.to.id \in Found(Values, j)
      BY DEF Found
    <3> QED
      BY <1>4, <1>5, <1>6, <3>1 DEF Ids
  <2> QED
    BY <2>1, <2>2
<1>10. \A m \in Values' : m \in Values \/ (m.at = j /\ m.to.cxt = <<>>)
  BY <1>5, <1>6
<1>11. /\ \A c \in N : c.fp = j.cur /\ c.target \in Found(Values', j)
       /\ \A c \in prog.icalls :
            c.fp = j.cur /\ c.target \in Found(Values', j) => c \in N \/ c.id \in called["flow"]
  BY <1>9 DEF Ids
<1>12. N \in SUBSET prog.icalls
  OBVIOUS
<1> HIDE DEF N, entries
<1>13. Links' = Links \union connected /\ Links' \ Links = connected \ edges["flow"]
  BY <1>2, <1>3 DEF Links, TypeOK
<1>14. called'["flow"] = called["flow"] \union {c.id : c \in N}
  BY <1>2, <1>3 DEF TypeOK
<1>15. sccCalls'["flow"] \in {sccCalls["flow"], called'["flow"]}
  BY <1>2, <1>3 DEF TypeOK
<1>16. Ids(Result) \subseteq Found(Values', j) /\ Links' = Links \union UNION {c.edges : c \in N}
  BY <1>5, <1>9, <1>13 DEF connected
<1>17. stack' = Append(Below, NewFrame(top.item, "new", Links' \ Links))
  BY <1>2, <1>13
<1> HIDE DEF connected, j
<1>18. GrownBy(N)
  BY <1>8, <1>10, <1>11, <1>14, <1>15, <1>16, <1>17 DEF GrownBy, j
<1> QED
  BY <1>12, <1>18

(* Calls that were found decide which edges there are.                     *)
LEMMA GrownLinks ==
  ASSUME Acting, NEW N \in SUBSET prog.icalls, GrownBy(N)
  PROVE  Linked(prog, Values', Links', called'["flow"], sccCalls'["flow"])
<1> DEFINE D == called["flow"]
           H == D \union {c.id : c \in N}
           j == top.item.at
<1>1. /\ Links = EdgesOf(prog, D) /\ prog.calls \subseteq sccCalls["flow"] /\ sccCalls["flow"] \subseteq D
      /\ \A c \in prog.icalls : c.target \in Found(Values, KeyOf(c.fp, c.fp)) => c.id \in D
  BY DEF Acting, Sound, Linked, Links, Values
<1>2. \A c, d \in prog.icalls : c.id = d.id => c = d
  BY ActingParts, ProgramAssumption
<1>3. {c \in prog.icalls : c.id \in H} = {c \in prog.icalls : c.id \in D} \union N
  BY <1>2
<1>4. Links' = EdgesOf(prog, H)
  BY <1>1, <1>3 DEF EdgesOf, GrownBy
<1>5. \A c \in prog.icalls : c.target \in Found(Values', KeyOf(c.fp, c.fp)) => c.id \in H
  <2> SUFFICES ASSUME NEW c \in prog.icalls, c.target \in Found(Values', KeyOf(c.fp, c.fp))
               PROVE  c.id \in H
    OBVIOUS
  <2>1. CASE KeyOf(c.fp, c.fp) = j
    <3>1. j.cur = c.fp
      BY <2>1 DEF KeyOf
    <3> QED
      BY <2>1, <3>1 DEF GrownBy
  <2>2. CASE KeyOf(c.fp, c.fp) # j
    BY <1>1, <2>2 DEF GrownBy
  <2> QED
    BY <2>1, <2>2
<1>6. called'["flow"] = H /\ sccCalls'["flow"] \in {sccCalls["flow"], H}
  BY DEF GrownBy
<1> QED
  BY <1>1, <1>4, <1>5, <1>6 DEF Linked

(* What earlier queries have visited asks nothing that is still to grow,   *)
(* and no new edge ends there.                                             *)
LEMMA OthersKeep ==
  ASSUME Acting, Precise', prog' = prog, NEW N \in SUBSET prog.icalls, GrownBy(N), NEW k \in Marks \ MetNow
  PROVE  Done(prog, Marks \ MetNow, Values', Links', k)
<1> DEFINE j == top.item.at
<1>1. /\ j \in MetNow /\ FlowKey(j) /\ j \in Key /\ k \in Key /\ prog \in Programs
      /\ Done(prog, Marks \ MetNow, Values, Links, k)
  BY ActingParts DEF FlowFrame
<1>2. j \notin PointerKeys(prog, Links, k) \union FlowInto(prog, Links, k, Base(prog, Links, Values, k))
  BY <1>1 DEF Done
<1>3. \A g \in Links' \ Links : g.dst # k.loc
  <2> SUFFICES ASSUME NEW c \in N, NEW g \in c.edges, g.dst = k.loc PROVE FALSE
    BY DEF GrownBy
  <2>1. c \in prog.icalls /\ c.fp \in Var /\ c.fp = j.cur /\ c.target \in Found(Values', j)
    BY <1>1, ProgramParts DEF GrownBy
  <2>2. c.target \in prog.ander[c.fp]
    <3>1. PICK m \in Values' : m.at = j /\ m.to.id = c.target
      BY <2>1 DEF Found
    <3>2. m.to.id \in prog.ander[m.at.cur]
      BY <1>1 DEF Precise, Values, Engine
    <3> QED
      BY <2>1, <3>1, <3>2
  <2>3. c.fp \in prog.resolves[k.loc]
    BY <1>1, <2>1, <2>2, ResolvesAssumption
  <2>4. KeyOf(c.fp, c.fp) \in Marks \ MetNow
    BY <1>1, <2>3 DEF Done
  <2>5. j = KeyOf(c.fp, c.fp)
    <3>1. j.loc \notin Mem
      BY <1>1, <2>1, NamesAssumption DEF FlowKey
    <3>2. j.loc = c.fp /\ j.cxt = <<>>
      BY <1>1, <2>1, <3>1 DEF FlowKey, Key, Node
    <3> QED
      BY <1>1, <2>1, <3>2 DEF Key, KeyOf
  <2> QED
    BY <1>1, <2>4, <2>5
<1>4. Around(Values, Values', Links, Links', j, k)
  BY <1>3 DEF Around, GrownBy
<1> QED
  BY <1>1, <1>2, <1>4, DoneKeeps

(* What this query has met is taken care of: by the recomputation that     *)
(* starts if the grown key feeds it, as before if not.                     *)
LEMMA GrowthServes ==
  ASSUME Acting, EndStatement, NEW N \in SUBSET prog.icalls, GrownBy(N), NEW k \in MetNow
  PROVE  Served(prog, Marks, Values', Links', stack', {}, k)
<1> DEFINE j == top.item.at
           f == NewFrame(top.item, "new", Links' \ Links)
<1>1. /\ top.stage = "stmt" /\ top.visits = {} /\ top.weak = None /\ top.objs = {}
      /\ stack' = Append(Below, f) /\ Links \subseteq Links'
      /\ k \in Key /\ prog \in Programs /\ Below \in Seq(Frame) /\ top \in Frame /\ j \in Key
      /\ top.item \in Item
  BY ActingParts DEF EndStatement, Idle, Running, GrownBy
<1>2. f \in Frame /\ f.item = top.item /\ f.stage = "new" /\ f.items = {} /\ f.edges = Links' \ Links
  <2>1. Links' \in SUBSET Edge
    <3>1. \A c \in N : c.edges \in SUBSET Edge
      BY <1>1, ProgramParts
    <3> QED
      BY <3>1, ActingParts DEF GrownBy
  <2>2. f \in Frame
    BY <1>1, <2>1, NewFrameType DEF Stage
  <2> QED
    BY <2>2 DEF NewFrame
<1> HIDE DEF f
<1>3. CASE Feeds(prog, Links, j, k) \/ \E g \in Links' \ Links : g.dst = k.loc
  <2>1. Feeds(prog, Links, j, k) => Feeds(prog, Links', j, k)
    BY <1>1 DEF Feeds
  <2>2. \A g : g.dst = k.loc => Hits(prog, TRUE, g, j, k)
    BY DEF Hits
  <2>3. Due(prog, Links', f, k)
    BY <1>2, <1>3, <2>1, <2>2 DEF Due
  <2> QED
    BY <1>1, <1>2, <2>3, PushServes DEF Serves
<1>4. CASE ~Feeds(prog, Links, j, k) /\ \A g \in Links' \ Links : g.dst # k.loc
  <2>1. Around(Values, Values', Links, Links', j, k)
    BY <1>1, <1>4 DEF Around, GrownBy
  <2>2. /\ Done(prog, Marks, Values, Links, k) => Done(prog, Marks, Values', Links', k)
        /\ \A h, A : h.item.at = k /\ UpToDate(prog, Marks, Values, Links, h, A)
                       => UpToDate(prog, Marks, Values', Links', h, A)
    BY <1>1, <1>4, <2>1, GrowthKeeps
  <2>3. \A h : Due(prog, Links, h, k) => Due(prog, Links', h, k)
    BY <1>1 DEF Due, Feeds
  <2>4. \A h, A : Serves(prog, Marks, Values, Links, h, A, k) => Serves(prog, Marks, Values', Links', h, A, k)
    BY <2>2, <2>3 DEF Serves
  <2>5. \/ Served(prog, Marks, Values, Links, Below, {j}, k)
        \/ Serves(prog, Marks, Values, Links, top, {}, k)
    <3>1. Served(prog, Marks, Values, Links, Append(Below, top), {}, k)
      BY ActingParts
    <3> QED
      BY <1>1, <3>1, PopServes
  <2>6. Served(prog, Marks, Values, Links, Below, {j}, k)
          => Served(prog, Marks, Values', Links', Below, {j}, k)
    BY <2>2, <2>4 DEF Served
  <2>7. Serves(prog, Marks, Values, Links, top, {}, k) => Done(prog, Marks, Values', Links', k)
    <3> SUFFICES ASSUME Serves(prog, Marks, Values, Links, top, {}, k)
                 PROVE  Done(prog, Marks, Values', Links', k)
      OBVIOUS
    <3>1. j = k /\ UpToDate(prog, Marks, Values, Links, top, {})
      BY <1>1 DEF Serves, Due
    <3>2. UpToDate(prog, Marks, Values', Links', top, {})
      BY <2>2, <3>1
    <3>3. Gives(prog, j, Ids(top.pts), Found(Values', j))
      BY ResultGives DEF GrownBy
    <3> QED
      BY <1>1, <3>1, <3>2, <3>3, FinishDone
  <2>8. Served(prog, Marks, Values', Links', Below, {j}, k)
    BY <2>5, <2>6, <2>7 DEF Served
  <2> QED
    BY <1>1, <1>2, <2>8, PushServes
<1> QED
  BY <1>3, <1>4

LEMMA EndStatementSettles ==
  ASSUME Acting, IInv, EndStatement
  PROVE  Sound'
<1>1. CASE UnionPts(CachedPts("flow", top.item.at), Result) = CachedPts("flow", top.item.at)
  BY <1>1, KnownSettles
<1>2. CASE UnionPts(CachedPts("flow", top.item.at), Result) # CachedPts("flow", top.item.at)
  <2>1. PICK N \in SUBSET prog.icalls : GrownBy(N)
    BY <1>2, GrownParts
  <2>2. /\ prog' = prog /\ Marks' = Marks /\ MetNow' = MetNow /\ Asked' = Asked /\ engine' = "flow"
        /\ FlowStack' = stack'
    BY DEF EndStatement, inQuery, Marks, MetNow, Asked, Acting, FlowStack
  <2>3. Precise'
    BY EndStatementFine DEF Acting, IInv
  <2>4. \A k \in Marks \ MetNow : Done(prog, Marks \ MetNow, Values', Links', k)
    BY <2>1, <2>2, <2>3, OthersKeep
  <2>5. \A k \in MetNow : Served(prog, Marks, Values', Links', stack', {}, k)
    BY <2>1, GrowthServes
  <2>6. Settling(prog, Marks, MetNow, Values, Links, FlowStack)'
    BY <2>2, <2>4, <2>5 DEF Settling
  <2>7. Shape(Marks, MetNow, Values)'
    <3>1. Shape(Marks, MetNow, Values) /\ FlowKey(top.item.at)
      BY ActingParts DEF FlowFrame
    <3> QED
      BY <2>1, <2>2, <3>1 DEF Shape, GrownBy
  <2>8. FlowFrames(prog, MetNow, FlowStack)'
    <3> DEFINE f == NewFrame(top.item, "new", Links' \ Links)
    <3>1. top.item \in Item /\ Links' \in SUBSET Edge /\ Below \in Seq(Frame)
      <4>1. \A c \in N : c.edges \in SUBSET Edge
        BY ActingParts, ProgramParts
      <4> QED
        BY <2>1, <4>1, ActingParts DEF GrownBy
    <3>2. f \in Frame
      BY <3>1, ActingParts, NewFrameType DEF Stage
    <3>3. /\ f.item = top.item /\ f.items = {} /\ f.visits = {} /\ f.pts = {} /\ f.base = {}
          /\ f.objs = {} /\ f.weak = None /\ f.stage = "new"
      BY DEF NewFrame
    <3> HIDE DEF f
    <3>4. FlowFrame(prog, MetNow, f)
      BY <3>3, ActingParts DEF FlowFrame
    <3>5. FlowFrames(prog, MetNow, Append(Below, f))
      BY <3>1, <3>2, <3>4, ActingParts, PushShape
    <3> QED
      BY <2>1, <2>2, <3>5 DEF GrownBy, f
  <2>9. Linked(prog, Values, Links, called["flow"], sccCalls["flow"])'
    BY <2>1, <2>2, GrownLinks
  <2>10. (prog.engine = "flow" => \A v \in Asked : KeyOf(v, v) \in Marks)'
    BY <2>2 DEF Acting, Sound, Marks
  <2> QED
    BY <2>6, <2>7, <2>8, <2>9, <2>10 DEF Sound, Marks, Values, Links
<1> QED
  BY <1>1, <1>2

-----------------------------------------------------------------------------
(* From query to query.                                                    *)

\* what concerns FlowDDA stays as it is
SameFlow ==
  UNCHANGED <<prog, visited["flow"], recorded["flow"], cache["flow"], edges["flow"], called["flow"],
              sccCalls["flow"]>>

LEMMA SoundStays ==
  ASSUME Sound, SameFlow, FlowStack' = FlowStack, prog.engine = "flow" => Asked' = Asked
  PROVE  Sound'
<1>1. /\ visited'["flow"] = visited["flow"] /\ MetNow' = MetNow /\ cache'["flow"] = cache["flow"]
      /\ edges'["flow"] = edges["flow"] /\ called'["flow"] = called["flow"]
      /\ sccCalls'["flow"] = sccCalls["flow"] /\ prog' = prog
  BY DEF SameFlow, MetNow
<1>2. (prog.engine = "flow" => \A v \in Asked : KeyOf(v, v) \in visited["flow"])'
  BY <1>1 DEF Sound
<1> QED
  BY <1>1, <1>2 DEF Sound

(* ContextDDA leaves what concerns FlowDDA alone.                          *)
LEMMA FindPTAside ==
  ASSUME TypeOK, NEW d, NEW vis, NEW st, FindPT(d, vis, st), UNCHANGED <<inQuery, cache, graph>>,
         engine = "cxt"
  PROVE  SameFlow
<1>1. /\ visited' = [visited EXCEPT !["cxt"] = vis \union {d.at}]
      /\ recorded' = recorded \/ recorded' = [recorded EXCEPT !["cxt"] = Insert(@, d)]
  BY DEF FindPT
<1>2. visited'["flow"] = visited["flow"] /\ recorded'["flow"] = recorded["flow"]
  BY <1>1 DEF TypeOK, Engine
<1> QED
  BY <1>2 DEF SameFlow, inQuery, graph

LEMMA UpdateAside ==
  ASSUME TypeOK, NEW d, NEW pts, NEW st, UpdateCachedPointsTo("cxt", d, pts, st),
         UNCHANGED <<prog, visited, recorded>>
  PROVE  SameFlow
<1>1. CASE UNCHANGED <<cache, graph>>
  BY <1>1 DEF SameFlow, graph
<1>2. CASE ~UNCHANGED <<cache, graph>>
  <2> DEFINE all == UnionPts(CachedPts("cxt", d.at), pts)
             new == {c \in prog.icalls : /\ c.fp = d.at.cur /\ \E o \in all : o.id = c.target
                                         /\ c.id \notin called["cxt"]}
             connected == UNION {c.edges : c \in new}
             entries == {[at |-> d.at, to |-> c] : c \in all}
             ids == {c.id : c \in new}
  <2>1. /\ cache' = [cache EXCEPT !["cxt"] = @ \union entries]
        /\ edges' = [edges EXCEPT !["cxt"] = @ \union connected]
        /\ called' = [called EXCEPT !["cxt"] = @ \union ids]
        /\ sccCalls' = IF connected \subseteq edges["cxt"] THEN sccCalls
                       ELSE [sccCalls EXCEPT !["cxt"] = called'["cxt"]]
    BY <1>2 DEF UpdateCachedPointsTo
  <2> HIDE DEF connected, entries, ids
  <2> QED
    BY <2>1 DEF SameFlow, TypeOK
<1> QED
  BY <1>1, <1>2

LEMMA StatementAside ==
  ASSUME Valid, Statement \/ Recomputation, engine = "cxt"
  PROVE  SameFlow
<1>1. TypeOK
  BY DEF Valid
<1>2. CASE UNCHANGED onlyTop
  BY <1>2 DEF onlyTop, inQuery, SameFlow, graph
<1>3. ASSUME NEW v, ResolveFunPtr(v) PROVE SameFlow
  BY <1>1, <1>3, FindPTAside DEF ResolveFunPtr
<1>4. ASSUME NEW x, BackwardPropDpm(x) PROVE SameFlow
  <2>1. CASE UNCHANGED <<visited, recorded>>
    BY <1>4, <2>1 DEF BackwardPropDpm, SameFlow, inQuery, graph
  <2>2. CASE ~UNCHANGED <<visited, recorded>>
    <3>1. \E d, vis, st : FindPT(d, vis, st)
      BY <1>4, <2>2 DEF BackwardPropDpm
    <3>2. UNCHANGED <<inQuery, cache, graph>>
      BY <1>4 DEF BackwardPropDpm
    <3> QED
      BY <1>1, <3>1, <3>2, FindPTAside
  <2> QED
    BY <2>1, <2>2
<1>5. ASSUME NEW d, ReCompute(d) PROVE SameFlow
  BY <1>1, <1>5, FindPTAside DEF ReCompute
<1>6. CASE EndStatement
  <2>1. \E d, pts, st : UpdateCachedPointsTo("cxt", d, pts, st)
    BY <1>6 DEF EndStatement
  <2>2. UNCHANGED <<prog, visited, recorded>>
    BY <1>6 DEF EndStatement, inQuery
  <2> QED
    BY <1>1, <2>1, <2>2, UpdateAside
<1>7. CASE BeginStatement \/ BaseDone \/ OldValues \/ OutEdges \/ Return
  BY <1>2, <1>7 DEF BeginStatement, BaseDone, OldValues, OutEdges, Return
<1>8. ASSUME NEW c, LoadObject(c) \/ StoreObject(c) \/ NextEdge(c) PROVE SameFlow
  BY <1>2, <1>8 DEF LoadObject, StoreObject, NextEdge
<1> QED
  BY <1>3, <1>4, <1>5, <1>6, <1>7, <1>8 DEF Statement, Recomputation

(* Between queries, all that was visited is done.                          *)
LEMMA AllDone ==
  ASSUME Sound, FlowStack = <<>>
  PROVE  \A k \in Marks : Done(prog, Marks, Values, Links, k)
<1>1. Len(FlowStack) = 0 /\ 1..0 = {}
  BY EmptySeq
<1>2. /\ \A k \in Marks \ MetNow : Done(prog, Marks \ MetNow, Values, Links, k)
      /\ \A k \in MetNow : Served(prog, Marks, Values, Links, FlowStack, {}, k)
  BY DEF Sound, Settling, Marks, Values, Links
<1>3. \A k \in Marks \ MetNow : Done(prog, Marks, Values, Links, k)
  BY <1>2, VisitsKeep
<1>4. \A k \in MetNow : Done(prog, Marks, Values, Links, k)
  BY <1>1, <1>2 DEF Served
<1> QED
  BY <1>3, <1>4

LEMMA QuerySettles ==
  ASSUME Valid, Sound, FlowStack = <<>>, ~oob["flow"], ~oob'["flow"], beyond["flow"] = {},
         NEW v \in Var, ComputeDDAPts("flow", v), UNCHANGED <<prog, cache, graph>>,
         prog.engine = "flow" => Asked' \subseteq Asked \union {v}
  PROVE  Sound'
<1> DEFINE root == ItemOf(v, <<>>, TRUE)
           known == root.at \in Marks
           f == NewFrame(root, "funptr", {})
<1>1. root \in Item /\ root.at = KeyOf(v, v) /\ FlowKey(root.at)
  <2>1. root \in Item
    BY ItemOfType, EmptyCxt
  <2>2. root.at = KeyOf(v, v)
    BY DEF ItemOf, KeyOf
  <2>3. FlowKey(KeyOf(v, v))
    BY NamesAssumption DEF FlowKey, KeyOf
  <2> QED
    BY <2>1, <2>2, <2>3
<1>2. /\ visited' = [visited EXCEPT !["flow"] = Marks \union {root.at}]
      /\ recorded' = [recorded EXCEPT !["flow"] = IF known THEN {} ELSE {root}]
      /\ oob' = [oob EXCEPT !["flow"] = ~known /\ prog.budget["flow"] = 0]
      /\ stack' = IF known \/ prog.budget["flow"] = 0 \/ root.at \in beyond["flow"] THEN <<>>
                  ELSE <<f>>
      /\ engine' = "flow"
  BY DEF ComputeDDAPts, Met, Marks
<1>3. /\ f \in Frame /\ f.item = root /\ f.stage = "funptr" /\ f.funs = prog.resolves[root.at.loc]
      /\ f.visits = {} /\ f.pts = {} /\ f.base = {} /\ f.objs = {} /\ f.weak = None /\ f.items = {}
  <2>1. f \in Frame
    BY <1>1, NewFrameType DEF Valid, Stage
  <2> QED
    BY <2>1 DEF NewFrame
<1> HIDE DEF f, root
<1>4. /\ Marks' = Marks \union {root.at}
      /\ MetNow' = IF known THEN {} ELSE {root.at}
      /\ Values' = Values /\ Links' = Links /\ prog' = prog /\ FlowStack' = stack'
      /\ stack' = IF known THEN <<>> ELSE <<f>>
  <2>1. recorded'["flow"] = (IF known THEN {} ELSE {root}) /\ Marks' = Marks \union {root.at}
    BY <1>2 DEF Valid, TypeOK, Engine, Marks
  <2>2. oob'["flow"] = (~known /\ prog.budget["flow"] = 0)
    BY <1>2 DEF Valid, TypeOK, Engine
  <2>3. MetNow' = IF known THEN {} ELSE {root.at}
    BY <2>1 DEF MetNow
  <2> QED
    BY <1>2, <2>1, <2>2, <2>3 DEF Values, Links, graph, FlowStack
<1>5. \A k \in Marks : Done(prog, Marks, Values, Links, k)
  BY AllDone
<1>6. Marks' \ MetNow' = Marks
  BY <1>4
<1>7. ~known => /\ \A k \in MetNow' : Served(prog, Marks', Values, Links, stack', {}, k)
                /\ FlowFrames(prog, MetNow', stack')
  <2> SUFFICES ASSUME ~known
               PROVE  /\ \A k \in MetNow' : Served(prog, Marks', Values, Links, stack', {}, k)
                      /\ FlowFrames(prog, MetNow', stack')
    OBVIOUS
  <2>1. <<>> \in Seq(Frame) /\ stack' = Append(<<>>, f) /\ FlowFrames(prog, MetNow', <<>>)
    <3>1. <<>> \in Seq(Frame) /\ Append(<<>>, f) = <<f>> /\ Len(<<>>) = 0 /\ 1..0 = {}
      BY EmptySeq
    <3> QED
      BY <1>4, <3>1 DEF FlowFrames
  <2>2. Serves(prog, Marks', Values, Links, f, {}, root.at)
    BY <1>3 DEF Serves, UpToDate
  <2>3. FlowFrame(prog, MetNow', f)
    BY <1>1, <1>3, <1>4 DEF FlowFrame
  <2>4. FlowFrames(prog, MetNow', stack')
    BY <1>3, <2>1, <2>3, PushShape
  <2>5. Served(prog, Marks', Values, Links, stack', {}, root.at)
    BY <1>3, <2>1, <2>2, PushServes
  <2> QED
    BY <1>4, <2>4, <2>5
<1>8. known => FlowFrames(prog, MetNow', stack')
  <2>1. Len(<<>>) = 0 /\ 1..0 = {}
    BY EmptySeq
  <2> QED
    BY <1>4, <2>1 DEF FlowFrames
<1>9. Settling(prog, Marks, MetNow, Values, Links, FlowStack)'
  BY <1>4, <1>5, <1>6, <1>7 DEF Settling
<1>10. Shape(Marks, MetNow, Values)'
  BY <1>1, <1>4 DEF Sound, Shape, Marks, Values
<1>11. Linked(prog, Values, Links, called["flow"], sccCalls["flow"])'
  BY <1>4 DEF Sound, Values, Links, graph
<1>12. (prog.engine = "flow" => \A u \in Asked : KeyOf(u, u) \in Marks)'
  BY <1>1, <1>4 DEF Sound, Marks
<1>13. FlowFrames(prog, MetNow, FlowStack)'
  BY <1>4, <1>7, <1>8
<1> QED
  BY <1>9, <1>10, <1>11, <1>12, <1>13 DEF Sound, Marks, Values, Links

-----------------------------------------------------------------------------
(* The budget, the calls and the marks of a query that ran out of it.      *)

LEMMA UpdateCalls ==
  ASSUME TypeOK, NEW e \in Engine, NEW d, NEW pts, NEW st, UpdateCachedPointsTo(e, d, pts, st)
  PROVE  called["flow"] \subseteq called'["flow"]
<1> DEFINE new == {c \in prog.icalls : /\ c.fp = d.at.cur
                                       /\ \E o \in UnionPts(CachedPts(e, d.at), pts) : o.id = c.target
                                       /\ c.id \notin called[e]}
           ids == {c.id : c \in new}
<1>1. called' = called \/ called' = [called EXCEPT ![e] = @ \union ids]
  BY DEF UpdateCachedPointsTo, graph
<1> HIDE DEF ids
<1> QED
  BY <1>1 DEF TypeOK, Engine

LEMMA CalledGrows ==
  ASSUME Valid, [Next]_vars
  PROVE  called["flow"] \subseteq called'["flow"] /\ beyond["flow"] \subseteq beyond'["flow"]
<1>1. TypeOK /\ engine \in Engine /\ "flow" \in Engine /\ "cxt" \in Engine
  BY DEF Valid, TypeOK, Engine
<1>2. CASE UNCHANGED <<graph, beyond>>
  BY <1>2 DEF graph
<1>3. CASE EndStatement
  BY <1>1, <1>3, UpdateCalls DEF EndStatement, inQuery
<1>4. CASE DegradeFlow
  BY <1>1, <1>4, UpdateCalls DEF DegradeFlow
<1>5. CASE DegradeContext
  <2>1. called["flow"] \subseteq called'["flow"]
    BY <1>1, <1>5, UpdateCalls DEF DegradeContext
  <2>2. beyond' = beyond \/ beyond' = [beyond EXCEPT !["flow"] = @ \union {Root.at}]
    BY <1>5 DEF DegradeContext
  <2> QED
    BY <1>1, <2>1, <2>2 DEF TypeOK
<1>6. CASE AnswerDegraded
  <2>1. beyond' = [beyond EXCEPT ![engine] = @ \union {Root.at}] /\ UNCHANGED graph
    BY <1>6 DEF AnswerDegraded
  <2> QED
    BY <1>1, <2>1 DEF TypeOK, graph
<1>7. CASE \E v \in queries : StartQuery(v)
  BY <1>2, <1>7 DEF StartQuery
<1>8. CASE (Statement \/ Recomputation) /\ ~EndStatement
  BY <1>2, <1>8 DEF Statement, Recomputation, ResolveFunPtr, BeginStatement, BackwardPropDpm, BaseDone,
     LoadObject, StoreObject, OldValues, NextEdge, ReCompute, OutEdges, Return, onlyTop, inQuery
<1>9. CASE AnswerInBudget \/ Downgrade
  BY <1>2, <1>9 DEF AnswerInBudget, Downgrade
<1>10. CASE UNCHANGED vars
  BY <1>2, <1>10 DEF vars
<1> QED
  BY <1>3, <1>4, <1>5, <1>6, <1>7, <1>8, <1>9, <1>10 DEF Next, EndOfQuery, Terminated

(* The steps of a statement and of a recomputation only run out of budget. *)
LEMMA OobGrows ==
  ASSUME Valid, Statement \/ Recomputation
  PROVE  /\ UNCHANGED inQuery /\ stack # <<>>
         /\ oob["flow"] => oob'["flow"]
         /\ engine # "flow" => oob'["flow"] = oob["flow"]
<1>1. UNCHANGED inQuery
  BY DEF Statement, Recomputation, ResolveFunPtr, BeginStatement, BackwardPropDpm, BaseDone,
     LoadObject, StoreObject, OldValues, EndStatement, NextEdge, ReCompute, OutEdges, Return, onlyTop
<1>2. stack # <<>>
  BY DEF Statement, Recomputation, ResolveFunPtr, BeginStatement, BaseDone, OldValues, EndStatement,
     OutEdges, Return, Idle, Running
<1>3. TypeOK /\ engine \in Engine /\ oob \in [Engine -> BOOLEAN]
  BY DEF Valid, TypeOK
<1>4. oob' = oob \/ \E b \in BOOLEAN : oob' = [oob EXCEPT ![engine] = oob[engine] \/ b]
  <2>1. ASSUME NEW d, NEW vis, NEW st, FindPT(d, vis, st)
        PROVE  oob' = oob \/ \E b \in BOOLEAN : oob' = [oob EXCEPT ![engine] = oob[engine] \/ b]
    <3> DEFINE b == steps[engine] + 1 > prog.budget[engine]
    <3>1. oob' = oob \/ oob' = [oob EXCEPT ![engine] = oob[engine] \/ b]
      BY <2>1 DEF FindPT
    <3>2. b \in BOOLEAN
      OBVIOUS
    <3> HIDE DEF b
    <3> QED
      BY <3>1, <3>2
  <2>2. ASSUME NEW x, BackwardPropDpm(x)
        PROVE  oob' = oob \/ \E b \in BOOLEAN : oob' = [oob EXCEPT ![engine] = oob[engine] \/ b]
    <3>1. CASE \E d, vis, st : FindPT(d, vis, st)
      BY <2>1, <3>1
    <3>2. CASE \E w, s, g : oob' = [oob EXCEPT ![engine] = @ \/ Repeated(w, s, g)]
      <4>1. PICK w, s, g : oob' = [oob EXCEPT ![engine] = oob[engine] \/ Repeated(w, s, g)]
        BY <3>2
      <4>2. Repeated(w, s, g) \in BOOLEAN
        BY DEF Repeated
      <4> QED
        BY <4>1, <4>2
    <3> QED
      BY <2>2, <3>1, <3>2 DEF BackwardPropDpm
  <2>3. ASSUME NEW d, ResolveFunPtr(d) \/ ReCompute(d)
        PROVE  oob' = oob \/ \E b \in BOOLEAN : oob' = [oob EXCEPT ![engine] = oob[engine] \/ b]
    <3>1. \E i, vis, st : FindPT(i, vis, st)
      BY <2>3 DEF ResolveFunPtr, ReCompute
    <3> QED
      BY <2>1, <3>1
  <2>4. CASE oob' = oob
    BY <2>4
  <2>5. CASE UNCHANGED onlyTop
    BY <2>5 DEF onlyTop
  <2>6. CASE BeginStatement \/ BaseDone \/ OldValues \/ OutEdges \/ Return \/ EndStatement
    BY <2>4, <2>5, <2>6 DEF BeginStatement, BaseDone, OldValues, OutEdges, Return, EndStatement
  <2>7. ASSUME NEW c, LoadObject(c) \/ StoreObject(c) \/ NextEdge(c)
        PROVE  oob' = oob
    BY <2>5, <2>7 DEF LoadObject, StoreObject, NextEdge, onlyTop
  <2> QED
    BY <2>2, <2>3, <2>6, <2>7 DEF Statement, Recomputation
<1> QED
  BY <1>1, <1>2, <1>3, <1>4 DEF Engine

LEMMA SpentNext ==
  ASSUME Valid, Spent, [Next]_vars
  PROVE  Spent'
<1>1. /\ TypeOK /\ engine \in Engine /\ "flow" \in Engine /\ oob \in [Engine -> BOOLEAN]
      /\ beyond \in [Engine -> SUBSET Key] /\ \A e \in Engine : e = "flow" \/ e = "cxt"
      /\ prog.engine \in Engine
  BY ProgramParts DEF Valid, TypeOK, Engine
<1>2. CASE UNCHANGED <<engine, pc, beyond, oob, stack>>
  BY <1>2 DEF Spent
<1>3. CASE Statement \/ Recomputation
  <2>1. /\ UNCHANGED <<engine, pc, beyond>> /\ stack # <<>>
        /\ oob["flow"] => oob'["flow"]
        /\ engine # "flow" => oob'["flow"] = oob["flow"]
    BY <1>3, OobGrows DEF inQuery
  <2> QED
    BY <2>1 DEF Spent
<1>4. CASE \E v \in queries : StartQuery(v)
  <2>1. pc = "answered" /\ pc' = "finding" /\ engine' = prog.engine /\ beyond' = beyond
        /\ \E b : oob' = [oob EXCEPT ![prog.engine] = b]
    BY <1>4 DEF StartQuery, ComputeDDAPts
  <2>2. engine' # "flow" => oob'["flow"] = oob["flow"]
    BY <1>1, <2>1
  <2> QED
    BY <2>1, <2>2 DEF Spent
<1>5. CASE Downgrade
  BY <1>5 DEF Downgrade, ComputeDDAPts, Spent
<1>6. CASE AnswerInBudget
  <2>1. pc' = "answered" /\ stack' = <<>> /\ ~oob[engine] /\ UNCHANGED <<engine, oob, beyond>>
    BY <1>6 DEF AnswerInBudget
  <2> QED
    BY <1>1, <2>1 DEF Spent
<1>7. CASE DegradeFlow
  BY <1>7 DEF DegradeFlow, Spent
<1>8. CASE DegradeContext
  <2>1. engine' = "cxt" /\ pc' = "degrading" /\ oob' = oob
        /\ \/ ~oob["flow"]
           \/ beyond' = [beyond EXCEPT !["flow"] = @ \union {Root.at}]
    BY <1>8 DEF DegradeContext
  <2> QED
    BY <1>1, <2>1 DEF Spent
<1>9. CASE AnswerDegraded
  <2>1. pc' = "answered" /\ stack' = <<>> /\ UNCHANGED <<engine, oob>>
        /\ beyond' = [beyond EXCEPT ![engine] = @ \union {Root.at}]
    BY <1>9 DEF AnswerDegraded
  <2>2. engine = "flow" => beyond'["flow"] # {}
    BY <1>1, <2>1
  <2>3. beyond["flow"] \subseteq beyond'["flow"]
    BY <1>1, <2>1
  <2> QED
    BY <1>1, <2>1, <2>2, <2>3 DEF Spent
<1>10. CASE UNCHANGED vars
  BY <1>2, <1>10 DEF vars
<1> QED
  BY <1>3, <1>4, <1>5, <1>6, <1>7, <1>8, <1>9, <1>10 DEF Next, EndOfQuery, Terminated

(* What is within the budget, and closes no recursion, was so before.      *)
LEMMA FaithfulBefore ==
  ASSUME Valid, Spent, [Next]_vars, Faithful'
  PROVE  Faithful
<1>1. called["flow"] \subseteq called'["flow"] /\ beyond["flow"] \subseteq beyond'["flow"] /\ prog' = prog
  <2>1. prog' = prog
    <3>1. CASE Statement \/ Recomputation
      BY <3>1, OobGrows DEF inQuery
    <3>2. CASE EndOfQuery
      BY <3>2 DEF EndOfQuery, AnswerInBudget, Downgrade, DegradeFlow, DegradeContext, AnswerDegraded
    <3> QED
      BY <3>1, <3>2 DEF Next, StartQuery, Terminated, vars
  <2> QED
    BY <2>1, CalledGrows
<1>2. beyond'["flow"] = {} /\ ~oob'["flow"] /\ RecursionKnown(called["flow"])'
  BY DEF Faithful, InBudget
<1>3. beyond["flow"] = {}
  BY <1>1, <1>2
<1>4. RecursionKnown(called["flow"])
  <2> DEFINE v == View(prog, called["flow"], called["flow"], "flow")
             w == View(prog, called'["flow"], called'["flow"], "flow")
  <2>1. \A o \in Obj :
          LocalInRecursion(w, o) => LocalInRecursion(View(prog, prog.calls, prog.calls, "flow"), o)
    BY <1>1, <1>2 DEF RecursionKnown
  <2>2. /\ w.prog = prog /\ v.prog = prog /\ v.called \subseteq w.called /\ v.scc \subseteq w.scc
    BY <1>1 DEF View
  <2> HIDE DEF v, w
  <2>3. \A o : LocalInRecursion(v, o) => LocalInRecursion(w, o)
    BY <2>2, MoreRecursion
  <2> QED
    BY <2>1, <2>3 DEF RecursionKnown, v
<1>5. ~oob["flow"]
  <2> SUFFICES ASSUME oob["flow"] PROVE oob'["flow"]
    BY <1>2
  <2>1. engine = "flow" /\ pc # "answered"
    BY <1>3 DEF Spent
  <2>2. CASE Statement \/ Recomputation
    BY <2>2, OobGrows
  <2>3. CASE EndOfQuery
    BY <2>1, <2>3 DEF EndOfQuery, AnswerInBudget, Downgrade, DegradeFlow, DegradeContext, AnswerDegraded
  <2>4. CASE UNCHANGED vars
    BY <2>4 DEF vars
  <2> QED
    BY <2>1, <2>2, <2>3, <2>4 DEF Next, StartQuery, Terminated
<1> QED
  BY <1>3, <1>4, <1>5 DEF Faithful, InBudget

-----------------------------------------------------------------------------
(* Any step.                                                               *)

LEMMA InitSound ==
  ASSUME Init, Valid
  PROVE  Sound /\ Spent
<1>1. /\ Marks = {} /\ MetNow = {} /\ Values = {} /\ Links = prog.edges /\ stack = <<>> /\ FlowStack = <<>>
      /\ called["flow"] = prog.calls /\ sccCalls["flow"] = prog.calls /\ oob["flow"] = FALSE
      /\ pc = "answered" /\ queries = prog.queries
  BY DEF Init, Marks, MetNow, Values, Links, FlowStack, Engine
<1>2. Len(<<>>) = 0 /\ 1..0 = {}
  BY EmptySeq
<1>3. Settling(prog, Marks, MetNow, Values, Links, FlowStack) /\ FlowFrames(prog, MetNow, FlowStack)
      /\ Shape(Marks, MetNow, Values)
  BY <1>1, <1>2 DEF Settling, FlowFrames, Shape
<1>4. Linked(prog, Values, Links, prog.calls, prog.calls)
  <2>1. \A c \in prog.icalls : c.id \notin prog.calls
    BY ProgramAssumption DEF Valid
  <2>2. EdgesOf(prog, prog.calls) = prog.edges
    BY <2>1 DEF EdgesOf
  <2>3. \A k : Found(Values, k) = {}
    BY <1>1 DEF Found
  <2> QED
    BY <1>1, <2>2, <2>3 DEF Linked
<1>5. Asked = {}
  BY <1>1 DEF Asked
<1> QED
  BY <1>1, <1>3, <1>4, <1>5 DEF Sound, Spent, Marks, Values, Links

LEMMA ActingSettles ==
  ASSUME Valid, IInv, Faithful, Faithful', Sound, engine = "flow", Statement \/ Recomputation
  PROVE  Sound'
<1>1. stack # <<>>
  BY OobGrows
<1>2. Acting /\ beyond["flow"] = {} /\ ~oob'["flow"] /\ RecursionKnown(called["flow"])
  BY <1>1 DEF Acting, Faithful, InBudget
<1>3. CASE Statement
  BY <1>2, <1>3, ResolveFunPtrSettles, BeginStatementSettles, BackwardPropDpmSettles, BaseDoneSettles,
     LoadObjectSettles, StoreObjectSettles, OldValuesSettles, EndStatementSettles DEF Statement
<1>4. CASE Recomputation
  BY <1>2, <1>4, NextEdgeSettles, ReComputeSettles, OutEdgesSettles, ReturnSettles DEF Recomputation
<1> QED
  BY <1>3, <1>4

LEMMA SoundNext ==
  ASSUME Valid, IInv, Turn, Spent, Sound, Faithful, Faithful', [Next]_vars
  PROVE  Sound'
<1>1. /\ TypeOK /\ engine \in {"flow", "cxt"} /\ prog.engine \in {"flow", "cxt"}
      /\ queries \subseteq prog.queries
  BY ProgramParts DEF Valid, TypeOK, Engine, Turn
<1>2. ~oob["flow"] /\ ~oob'["flow"] /\ beyond["flow"] = {} /\ beyond'["flow"] = {}
  BY DEF Faithful, InBudget
<1>3. CASE Statement \/ Recomputation
  <2>1. CASE engine = "flow"
    BY <1>3, <2>1, ActingSettles
  <2>2. CASE engine = "cxt"
    <3>1. SameFlow /\ UNCHANGED inQuery
      BY <1>3, <2>2, StatementAside, OobGrows
    <3>2. FlowStack' = FlowStack /\ Asked' = Asked
      BY <2>2, <3>1 DEF inQuery, FlowStack, Asked
    <3> QED
      BY <3>1, <3>2, SoundStays
  <2> QED
    BY <1>1, <2>1, <2>2
<1>4. ASSUME NEW v \in queries, StartQuery(v) PROVE Sound'
  <2>1. FlowStack = <<>> /\ v \in Var
    BY <1>1, <1>4 DEF StartQuery, Spent, FlowStack, TypeOK
  <2>2. queries' = queries \ {v} /\ UNCHANGED <<prog, cache, beyond, graph>>
        /\ ComputeDDAPts(prog.engine, v)
    BY <1>4 DEF StartQuery
  <2>3. CASE prog.engine = "flow"
    <3>1. Asked' \subseteq Asked \union {v}
      BY <2>2 DEF Asked
    <3> QED
      BY <1>2, <2>1, <2>2, <2>3, <3>1, QuerySettles
  <2>4. CASE prog.engine = "cxt"
    <3>1. /\ \E V : visited' = [visited EXCEPT !["cxt"] = V]
          /\ \E R : recorded' = [recorded EXCEPT !["cxt"] = R]
          /\ engine' = "cxt"
      BY <2>2, <2>4 DEF ComputeDDAPts
    <3>2. visited'["flow"] = visited["flow"] /\ recorded'["flow"] = recorded["flow"]
      BY <1>1, <3>1 DEF TypeOK, Engine
    <3>3. SameFlow /\ FlowStack' = FlowStack
      BY <2>1, <2>2, <3>1, <3>2 DEF SameFlow, FlowStack, graph
    <3> QED
      BY <2>4, <3>3, SoundStays
  <2> QED
    BY <1>1, <2>3, <2>4
<1>5. CASE Downgrade
  <2>1. FlowStack = <<>> /\ query \in Var /\ UNCHANGED <<prog, cache, beyond, graph>>
        /\ ComputeDDAPts("flow", query) /\ Asked' = Asked
    BY <1>1, <1>5 DEF Downgrade, FlowStack, Asked, TypeOK
  <2> QED
    BY <1>2, <2>1, QuerySettles
<1>6. CASE AnswerInBudget \/ AnswerDegraded \/ UNCHANGED vars
  <2>1. UNCHANGED <<prog, queries, engine, stack, visited, recorded, cache, graph>>
    BY <1>6 DEF AnswerInBudget, AnswerDegraded, vars
  <2>2. SameFlow /\ FlowStack' = FlowStack /\ Asked' = Asked
    BY <2>1 DEF SameFlow, FlowStack, Asked, graph
  <2> QED
    BY <2>2, SoundStays
<1>7. CASE DegradeContext
  <2>1. /\ stack = <<>> /\ engine' = "cxt" /\ UNCHANGED <<prog, queries, visited, recorded>>
        /\ UpdateCachedPointsTo("cxt", Root, FlowPts, <<>>)
    BY <1>7 DEF DegradeContext
  <2>2. SameFlow /\ FlowStack' = FlowStack /\ Asked' = Asked
    BY <1>1, <2>1, UpdateAside DEF FlowStack, Asked
  <2> QED
    BY <2>2, SoundStays
<1>8. ~DegradeFlow
  BY <1>2 DEF DegradeFlow
<1> QED
  BY <1>3, <1>4, <1>5, <1>6, <1>7, <1>8 DEF Next, EndOfQuery, Terminated

-----------------------------------------------------------------------------
(* What is done solves the equations.                                      *)

AtRest == Valid /\ Sound /\ Faithful /\ FlowStack = <<>>
Narrowed == [prog EXCEPT !.queries = IF prog.engine = "flow" THEN Asked ELSE {}]
FlowView == View(Narrowed, called["flow"], called["flow"], "flow")
DemandsAt(k) == Demands(FlowView, Links, ItemAt(k), FlowResult.values)

LEMMA RestParts ==
  ASSUME AtRest
  PROVE  /\ prog \in Programs /\ Marks \in SUBSET Key /\ Values \in SUBSET [at : Key, to : CVar]
         /\ Links \in SUBSET Edge
         /\ \A k \in Marks : FlowKey(k) /\ Done(prog, Marks, Values, Links, k)
         /\ \A m \in Values : FlowKey(m.at) /\ m.to.cxt = <<>>
         /\ Linked(prog, Values, Links, called["flow"], sccCalls["flow"])
         /\ prog.engine = "flow" => \A v \in Asked : KeyOf(v, v) \in Marks
         /\ FlowResult.items = {ItemAt(k) : k \in Marks} /\ FlowResult.calls = called["flow"]
         /\ FlowResult.values
              = {[at |-> ItemAt(m.at), to |-> [m.to EXCEPT !.conc = TRUE]] : m \in Values}
<1>1. prog \in Programs /\ Marks \in SUBSET Key /\ Values \in SUBSET [at : Key, to : CVar]
      /\ Links \in SUBSET Edge
  BY DEF AtRest, Valid, TypeOK, Marks, Values, Links, Engine
<1>2. \A k \in Marks : Done(prog, Marks, Values, Links, k)
  BY AllDone DEF AtRest
<1>3. Shape(Marks, MetNow, Values) /\ Linked(prog, Values, Links, called["flow"], sccCalls["flow"])
      /\ (prog.engine = "flow" => \A v \in Asked : KeyOf(v, v) \in Marks)
  BY DEF AtRest, Sound, Marks, Values, Links
<1>4. /\ FlowResult.items = {ItemAt(k) : k \in Marks} /\ FlowResult.calls = called["flow"]
      /\ FlowResult.values
           = {[at |-> ItemAt(m.at), to |-> [m.to EXCEPT !.conc = TRUE]] : m \in Values}
  BY DEF FlowResult, Marks, Values
<1> QED
  BY <1>1, <1>2, <1>3, <1>4 DEF Shape

LEMMA NarrowedParts ==
  ASSUME prog \in Programs
  PROVE  LET p == Narrowed IN
         /\ p.kind = prog.kind /\ p.obj = prog.obj /\ p.field = prog.field
         /\ p.src = prog.src /\ p.dst = prog.dst /\ p.edges = prog.edges /\ p.icalls = prog.icalls
         /\ p.resolves = prog.resolves /\ p.calls = prog.calls /\ p.caller = prog.caller
         /\ p.local = prog.local /\ p.heap = prog.heap /\ p.opaque = prog.opaque /\ p.weak = prog.weak
         /\ p.queries = IF prog.engine = "flow" THEN Asked ELSE {}
<1>1. prog \in Program
  BY ProgramAssumption
<1> QED
  BY <1>1 DEF Narrowed, Program

LEMMA ViewParts ==
  /\ FlowView.prog = Narrowed /\ FlowView.called = called["flow"] /\ FlowView.scc = called["flow"]
  /\ FlowView.by = "flow"
BY DEF FlowView, View

LEMMA ViewShows ==
  ASSUME prog \in Programs
  PROVE  LET p == FlowView.prog IN
         /\ p.kind = prog.kind /\ p.src = prog.src /\ p.dst = prog.dst /\ p.resolves = prog.resolves
         /\ p.caller = prog.caller /\ p.local = prog.local
         /\ p.heap = prog.heap /\ p.opaque = prog.opaque /\ p.weak = prog.weak
<1>1. FlowView.prog = Narrowed
  BY ViewParts
<1> QED
  BY <1>1, NarrowedParts

(* A key of FlowDDA and its item.                                          *)
LEMMA ItemAtParts ==
  ASSUME NEW k \in Key, FlowKey(k)
  PROVE  /\ FlowItem(ItemAt(k)) /\ ItemAt(k).loc = k.loc /\ ItemAt(k).cxt = <<>> /\ ItemAt(k).conc = TRUE
         /\ k.loc \in Var => ItemAt(k) = RootOf(k.loc)
         /\ k.loc \notin Var => ItemAt(k).cur = Any(k.cur) /\ k.cur \in Obj
<1>1. k.loc \in Var \/ (k.loc \in Mem /\ k.loc \notin Var)
  BY NamesAssumption DEF Key, Node
<1>2. CASE k.loc \in Var
  <2>1. ItemAt(k) = RootOf(k.loc)
    BY <1>2 DEF FlowKey, ItemAt, RootOf
  <2>2. RootOf(k.loc).loc = k.loc /\ RootOf(k.loc).cxt = <<>> /\ RootOf(k.loc).conc = TRUE
    BY DEF RootOf
  <2> QED
    BY <1>2, <2>1, <2>2 DEF FlowItem
<1>3. CASE k.loc \in Mem /\ k.loc \notin Var
  <2>1. ItemAt(k) = [loc |-> k.loc, cxt |-> <<>>, conc |-> TRUE, cur |-> Any(k.cur)] /\ k.cur \in Obj
    BY <1>3 DEF FlowKey, ItemAt, Any
  <2> QED
    BY <1>3, <2>1 DEF FlowItem, FlowVar, Any
<1> QED
  BY <1>1, <1>2, <1>3

LEMMA ItemAtOne ==
  ASSUME NEW j \in Key, NEW k \in Key, FlowKey(j), FlowKey(k), ItemAt(j) = ItemAt(k)
  PROVE  j = k
<1>1. j.loc = k.loc /\ j.cxt = k.cxt
  BY ItemAtParts DEF FlowKey
<1>2. j.cur = k.cur
  <2>1. CASE j.loc \in Var
    BY <1>1, <2>1 DEF FlowKey
  <2>2. CASE j.loc \notin Var
    <3>1. Any(j.cur) = Any(k.cur)
      BY <1>1, <2>2, ItemAtParts
    <3> QED
      BY <3>1 DEF Any
  <2> QED
    BY <2>1, <2>2
<1> QED
  BY <1>1, <1>2 DEF Key

(* The values of what FlowDDA has found.                                   *)
LEMMA PlainValue ==
  ASSUME NEW c \in CVar, c.cxt = <<>>
  PROVE  [c EXCEPT !.conc = TRUE] = Any(c.id)
<1> DEFINE d == [c EXCEPT !.conc = TRUE]
           o == c.id
<1>1. d \in CVar /\ d.id = o /\ d.cxt = <<>> /\ d.conc = TRUE
  BY DEF CVar
<1> HIDE DEF d, o
<1>2. d = Any(o)
  BY <1>1 DEF CVar, Any
<1> QED
  BY <1>2 DEF d, o

LEMMA FoundValue ==
  ASSUME AtRest, NEW k, NEW o \in Found(Values, k)
  PROVE  [at |-> ItemAt(k), to |-> Any(o)] \in FlowResult.values
<1>1. PICK m \in Values : m.at = k /\ m.to.id = o
  BY DEF Found
<1>2. m.to \in CVar /\ m.to.cxt = <<>>
  BY RestParts
<1>3. [m.to EXCEPT !.conc = TRUE] = Any(o)
  BY <1>1, <1>2, PlainValue
<1>4. FlowResult.values
        = {[at |-> ItemAt(y.at), to |-> [y.to EXCEPT !.conc = TRUE]] : y \in Values}
  BY RestParts
<1>5. [at |-> ItemAt(m.at), to |-> [m.to EXCEPT !.conc = TRUE]] \in FlowResult.values
  BY <1>4
<1> QED
  BY <1>1, <1>3, <1>5

LEMMA ValueFound ==
  ASSUME AtRest, NEW K \in SUBSET Marks, NEW I, \A i \in I : \E d \in K : i = ItemAt(d),
         NEW c \in ValuesAt(FlowResult.values, I)
  PROVE  c \in FlowVar /\ c = Any(c.id) /\ \E d \in K : c.id \in Found(Values, d)
<1>1. PICK m \in FlowResult.values : m.at \in I /\ m.to = c
  BY DEF ValuesAt
<1>2. PICK x \in Values : m = [at |-> ItemAt(x.at), to |-> [x.to EXCEPT !.conc = TRUE]]
  BY RestParts
<1>3. m.at = ItemAt(x.at) /\ m.to = [x.to EXCEPT !.conc = TRUE]
  BY <1>2
<1>4. PICK d \in K : ItemAt(x.at) = ItemAt(d)
  BY <1>1, <1>3
<1>5. x.at \in Key /\ x.to \in CVar /\ FlowKey(x.at) /\ x.to.cxt = <<>> /\ d \in Key /\ FlowKey(d)
  BY RestParts
<1>6. x.at = d
  BY <1>4, <1>5, ItemAtOne
<1>7. c = Any(x.to.id) /\ x.to.id \in Obj
  BY <1>1, <1>3, <1>5, PlainValue DEF CVar
<1> QED
  BY <1>6, <1>7 DEF Any, FlowVar, Found

LEMMA ItemAtKey ==
  ASSUME NEW n, NEW x, n \in Var => x = n
  PROVE  ItemAt(KeyOf(n, x)) = FlowOf(n, x)
<1> DEFINE k == KeyOf(n, x)
<1>1. k.loc = n /\ k.cur = x /\ k.cxt = <<>>
  BY DEF KeyOf
<1> HIDE DEF k
<1> QED
  BY <1>1 DEF ItemAt, FlowOf, Any, k

(* What an item reaches are the items of the keys behind the edges.        *)
LEMMA ReachedSource ==
  ASSUME AtRest, NEW k \in Marks, NEW G \in SUBSET Edge, NEW c, NEW o,
         \A g \in G : g.ind => c = Any(o), NEW y \in Reached(FlowView, ItemAt(k), G, c)
  PROVE  \E g \in G : y = ItemAt(Source(g, o))
<1> DEFINE i == ItemAt(k)
<1>1. i.cxt = <<>> /\ i.conc = TRUE /\ FlowView.by = "flow"
  BY RestParts, ItemAtParts, ViewParts
<1> HIDE DEF i
<1>2. PICK g \in G : y = [loc |-> g.src, cur |-> IF g.ind THEN c ELSE g.src,
                          cxt |-> Context(FlowView, i.cxt, g), conc |-> Concrete(FlowView, i.cxt, i.conc, g)]
  BY DEF Reached, i
<1>3. Context(FlowView, i.cxt, g) = <<>> /\ Concrete(FlowView, i.cxt, i.conc, g) = TRUE
  BY <1>1 DEF Context, Concrete, Plain
<1>4. g \in Edge /\ (g.ind => g.src \notin Var) /\ (~g.ind => g.src \in Var) /\ (g.ind => c = Any(o))
  BY NamesAssumption DEF Edge
<1>5. y = [loc |-> g.src, cur |-> IF g.ind THEN c ELSE g.src, cxt |-> <<>>, conc |-> TRUE]
  BY <1>2, <1>3
<1>6. y = ItemAt(Source(g, o))
  <2>1. CASE g.ind
    <3>1. Source(g, o) = KeyOf(g.src, o)
      BY <2>1 DEF Source
    <3>2. ItemAt(Source(g, o)) = FlowOf(g.src, o)
      BY <1>4, <2>1, <3>1, ItemAtKey
    <3>3. FlowOf(g.src, o) = [loc |-> g.src, cur |-> Any(o), cxt |-> <<>>, conc |-> TRUE]
      BY <1>4, <2>1 DEF FlowOf
    <3> QED
      BY <1>4, <1>5, <2>1, <3>2, <3>3
  <2>2. CASE ~g.ind
    <3>1. Source(g, o) = KeyOf(g.src, g.src)
      BY <2>2 DEF Source
    <3>2. ItemAt(Source(g, o)) = FlowOf(g.src, g.src)
      BY <3>1, ItemAtKey
    <3>3. FlowOf(g.src, g.src) = [loc |-> g.src, cur |-> g.src, cxt |-> <<>>, conc |-> TRUE]
      BY <1>4, <2>2 DEF FlowOf
    <3> QED
      BY <1>5, <2>2, <3>2, <3>3
  <2> QED
    BY <2>1, <2>2
<1> QED
  BY <1>6

(* What a visited item looks at.                                           *)
LEMMA AtKey ==
  ASSUME AtRest, NEW k \in Marks
  PROVE  /\ prog \in Programs /\ k \in Key /\ FlowKey(k) /\ k.loc \in Node
         /\ k.loc \in Mem <=> k.loc \notin Var
         /\ ItemAt(k).loc = k.loc /\ ItemAt(k).cxt = <<>> /\ ItemAt(k).conc = TRUE
         /\ k.loc \in Mem => ItemAt(k).cur = Any(k.cur)
         /\ prog.kind[k.loc] \in {"addr", "copy", "gep", "load", "store", "mr"}
         /\ k.loc \in Mem <=> prog.kind[k.loc] \in {"store", "mr"}
         /\ Done(prog, Marks, Values, Links, k)
<1>1. prog \in Programs /\ k \in Key /\ FlowKey(k) /\ Done(prog, Marks, Values, Links, k)
  BY RestParts
<1>2. k.loc \in Mem <=> k.loc \notin Var
  BY <1>1, NamesAssumption DEF Key, Node
<1> QED
  BY <1>1, <1>2, KindOf, ItemAtParts

LEMMA OperandAsked ==
  ASSUME AtRest, NEW k \in Marks, NEW v, NEW y \in Operand(FlowView, Links, ItemAt(k), v)
  PROVE  \E g \in Links : g.dst = k.loc /\ ~g.ind /\ g.src = v /\ y = ItemAt(Source(g, None))
<1> DEFINE i == ItemAt(k)
           G == {g \in Links : g.dst = i.loc /\ ~g.ind /\ g.src = v}
<1>1. y \in Reached(FlowView, i, G, None)
  BY DEF Operand
<1>2. i.loc = k.loc /\ G \in SUBSET Edge /\ \A g \in G : ~g.ind
  BY AtKey, RestParts
<1>3. \A g \in G : g.dst = i.loc /\ ~g.ind /\ g.src = v /\ g \in Links
  OBVIOUS
<1> HIDE DEF G
<1>4. \E g \in G : y = ItemAt(Source(g, None))
  BY <1>1, <1>2, ReachedSource
<1> QED
  BY <1>2, <1>3, <1>4

LEMMA MemoryAsked ==
  ASSUME AtRest, NEW k \in Marks, NEW o, NEW y \in Memory(FlowView, Links, ItemAt(k), Any(o))
  PROVE  \E d \in MemoryKeys(prog, Links, k, o) : y = ItemAt(d)
<1> DEFINE i == ItemAt(k)
           c == Any(o)
           G == {g \in Links : /\ g.dst = i.loc /\ g.ind
                               /\ c.id \in g.guard /\ c.id \notin FlowView.prog.opaque}
<1>1. y \in Reached(FlowView, i, G, c)
  BY DEF Memory
<1>2. i.loc = k.loc /\ c.id = o /\ FlowView.prog.opaque = prog.opaque /\ G \in SUBSET Edge
  BY AtKey, RestParts, ViewShows DEF Any
<1>3. G = MemoryEdges(prog, Links, k, o)
  BY <1>2 DEF MemoryEdges
<1> HIDE DEF G, c
<1>4. \E g \in G : y = ItemAt(Source(g, o))
  BY <1>1, <1>2, ReachedSource DEF c
<1> QED
  BY <1>3, <1>4 DEF MemoryKeys

(* The pointer operand, and what it points to.                             *)
LEMMA PointerAsked ==
  ASSUME AtRest, NEW k \in Marks
  PROVE  /\ PointerKeys(prog, Links, k) \in SUBSET Marks
         /\ \A y \in Pointer(FlowView, Links, ItemAt(k)) :
              \E d \in PointerKeys(prog, Links, k) : y = ItemAt(d)
<1> DEFINE i == ItemAt(k)
<1>1. /\ i.loc = k.loc /\ FlowView.prog.kind = prog.kind
      /\ FlowView.prog.src = prog.src /\ FlowView.prog.dst = prog.dst
  BY AtKey, ViewShows
<1>2. PointerKeys(prog, Links, k) \in SUBSET Marks
  BY AtKey DEF Done
<1>3. ASSUME NEW y \in Pointer(FlowView, Links, i)
      PROVE  prog.kind[k.loc] \in {"load", "store"}
             /\ y \in Operand(FlowView, Links, i, PointerTo(prog, k.loc))
  <2> HIDE DEF i
  <2> QED
    BY <1>1, <1>3 DEF Pointer, PointerTo
<1>4. ASSUME NEW y \in Pointer(FlowView, Links, i)
      PROVE  \E d \in PointerKeys(prog, Links, k) : y = ItemAt(d)
  BY <1>3, <1>4, OperandAsked DEF PointerKeys, PointerEdges
<1> QED
  BY <1>2, <1>4

LEMMA PointsToBase ==
  ASSUME AtRest, NEW k \in Marks,
         NEW c \in ValuesAt(FlowResult.values, Pointer(FlowView, Links, ItemAt(k)))
  PROVE  c = Any(c.id) /\ c.id \in Base(prog, Links, Values, k)
<1>1. /\ PointerKeys(prog, Links, k) \in SUBSET Marks
      /\ \A y \in Pointer(FlowView, Links, ItemAt(k)) :
           \E d \in PointerKeys(prog, Links, k) : y = ItemAt(d)
  BY PointerAsked
<1>2. c = Any(c.id) /\ \E d \in PointerKeys(prog, Links, k) : c.id \in Found(Values, d)
  BY <1>1, ValueFound
<1> QED
  BY <1>2 DEF Base

(* Where a strong update is sure, the equations have one.                  *)
LEMMA SureOverwrites ==
  ASSUME AtRest, NEW k \in Marks, NEW S, NEW c \in S, \A d \in S : d = Any(k.cur), k.cur \in Obj,
         NEW B, Sure(prog, k, B)
  PROVE  StrongUpdate(FlowView, S)
<1> DEFINE v == View(prog, called["flow"], called["flow"], "flow")
           u == View(prog, prog.calls, prog.calls, "flow")
<1>1. FlowView.prog.weak = prog.weak /\ FlowView.prog.heap = prog.heap
      /\ FlowView.prog.local = prog.local /\ FlowView.prog.caller = prog.caller
  BY AtKey, ViewShows
<1>2. v.prog = prog /\ v.called = FlowView.called /\ v.scc = FlowView.scc
  BY ViewParts DEF View
<1>3. LocalInRecursion(v, k.cur) => LocalInRecursion(u, k.cur)
  BY DEF AtRest, Faithful, RecursionKnown
<1>4. k.cur \notin prog.weak \union prog.heap /\ ~LocalInRecursion(u, k.cur)
  BY DEF Sure
<1> HIDE DEF v, u
<1>5. ~LocalInRecursion(FlowView, k.cur)
  BY <1>1, <1>2, <1>3, <1>4, MoreRecursion
<1>6. c.id = k.cur /\ \A d \in S : SameElement(c, d)
  BY DEF Any, SameElement
<1> QED
  BY <1>1, <1>4, <1>5, <1>6 DEF StrongUpdate

(* All that a visited item demands has been visited.                       *)
LEMMA BaseMet ==
  ASSUME AtRest, NEW k \in Marks
  PROVE  DemandsAt(k).base \subseteq FlowResult.items
<1> DEFINE i == ItemAt(k)
           A == {[loc |-> v, cur |-> v, cxt |-> <<>>, conc |-> TRUE] : v \in prog.resolves[k.loc]}
<1>1. /\ i.loc = k.loc /\ i.cxt = <<>> /\ i.conc = TRUE /\ k.loc \in Node
      /\ FlowView.prog.resolves = prog.resolves /\ prog \in Programs
  BY AtKey, ViewShows
<1>2. DemandsAt(k).base = Pointer(FlowView, Links, i) \union A
  <2> HIDE DEF i
  <2> QED
    BY <1>1 DEF DemandsAt, Demands, i
<1>3. Pointer(FlowView, Links, i) \subseteq FlowResult.items
  BY PointerAsked, RestParts
<1>4. A \subseteq FlowResult.items
  <2> SUFFICES ASSUME NEW v \in prog.resolves[k.loc]
               PROVE  [loc |-> v, cur |-> v, cxt |-> <<>>, conc |-> TRUE] \in FlowResult.items
    OBVIOUS
  <2>1. v \in Var /\ KeyOf(v, v) \in Marks
    BY <1>1, AtKey, ProgramParts DEF Done
  <2>2. ItemAt(KeyOf(v, v)) = [loc |-> v, cur |-> v, cxt |-> <<>>, conc |-> TRUE]
    BY <2>1, ItemAtKey DEF FlowOf
  <2> QED
    BY <2>1, <2>2, RestParts
<1> QED
  BY <1>2, <1>3, <1>4

LEMMA StoreAsked ==
  ASSUME AtRest, NEW k \in Marks, prog.kind[k.loc] = "store", NEW y \in DemandsAt(k).flow
  PROVE  \E d \in FlowInto(prog, Links, k, Base(prog, Links, Values, k)) : y = ItemAt(d)
<1> DEFINE i == ItemAt(k)
           w == FlowView
           B == Base(prog, Links, Values, k)
           pts == ValuesAt(FlowResult.values, Pointer(w, Links, i))
           One(c) == IF SameVar(w, c, i.cur)
                     THEN Operand(w, Links, i, prog.src[k.loc])
                            \union (IF StrongUpdate(w, pts) THEN {} ELSE Memory(w, Links, i, c))
                     ELSE Memory(w, Links, i, i.cur)
<1>1. /\ i.loc = k.loc /\ i.cur = Any(k.cur) /\ w.by = "flow"
      /\ w.prog.kind = prog.kind /\ w.prog.src = prog.src
      /\ k.loc \in Mem /\ k.cur \in Obj
  BY AtKey, ViewParts, ViewShows DEF FlowKey
<1>2. \A c \in pts : c = Any(c.id) /\ c.id \in B
  BY PointsToBase
<1>3. \A c \in pts : SameVar(w, c, i.cur) <=> c.id = k.cur
  <2> HIDE DEF w, i, pts
  <2> QED
    BY <1>1 DEF SameVar, Any
<1>4. DemandsAt(k).flow = UNION {One(c) : c \in pts}
  <2> HIDE DEF i, w
  <2> QED
    BY <1>1 DEF DemandsAt, Demands, i, w
<1>5. StrongUpdate(w, pts) \/ ~Sure(prog, k, B) \/ pts = {}
  <2> SUFFICES ASSUME Sure(prog, k, B), NEW c \in pts PROVE StrongUpdate(w, pts)
    OBVIOUS
  <2>1. \A d \in pts : d = Any(k.cur)
    BY <1>2 DEF Sure
  <2> QED
    BY <1>1, <2>1, SureOverwrites
<1>6. PICK c \in pts : y \in One(c)
  <2> HIDE DEF One, pts
  <2> QED
    BY <1>4
<1>7. FlowFor(prog, Links, k, B, c.id) \subseteq FlowInto(prog, Links, k, B)
  <2>1. c.id \in B
    BY <1>2
  <2> HIDE DEF B
  <2> QED
    BY <2>1 DEF FlowInto
<1>8. \E d \in FlowFor(prog, Links, k, B, c.id) : y = ItemAt(d)
  <2>1. CASE c.id = k.cur /\ y \in Operand(w, Links, i, prog.src[k.loc])
    <3>1. \E d \in StoredKeys(prog, Links, k) : y = ItemAt(d)
      BY <2>1, OperandAsked DEF StoredKeys, StoredEdges
    <3> QED
      BY <2>1, <3>1 DEF FlowFor
  <2>2. CASE ~Sure(prog, k, B) /\ y \in Memory(w, Links, i, Any(k.cur))
    <3>1. \E d \in MemoryKeys(prog, Links, k, k.cur) : y = ItemAt(d)
      BY <2>2, MemoryAsked
    <3> QED
      BY <2>2, <3>1 DEF FlowFor
  <2>3. c.id # k.cur => ~Sure(prog, k, B)
    BY <1>2 DEF Sure
  <2>4. c = Any(c.id)
    BY <1>2
  <2> HIDE DEF w, i, pts, B
  <2> QED
    BY <1>1, <1>3, <1>5, <1>6, <2>1, <2>2, <2>3, <2>4
<1> QED
  BY <1>7, <1>8

LEMMA FlowAsked ==
  ASSUME AtRest, NEW k \in Marks, NEW y \in DemandsAt(k).flow
  PROVE  \E d \in FlowInto(prog, Links, k, Base(prog, Links, Values, k)) : y = ItemAt(d)
<1> DEFINE i == ItemAt(k)
           w == FlowView
           B == Base(prog, Links, Values, k)
           pts == ValuesAt(FlowResult.values, Pointer(w, Links, i))
           G == {g \in Links : g.dst = i.loc /\ ~g.ind}
<1>1. /\ i.loc = k.loc /\ w.prog.kind = prog.kind /\ w.prog.src = prog.src
      /\ prog.kind[k.loc] \in {"addr", "copy", "gep", "load", "store", "mr"}
      /\ k.loc \in Mem <=> prog.kind[k.loc] \in {"store", "mr"}
      /\ k.loc \in Mem => i.cur = Any(k.cur)
  BY AtKey, ViewShows
<1>2. CASE prog.kind[k.loc] = "addr"
  <2> HIDE DEF i, w
  <2> QED
    BY <1>1, <1>2 DEF DemandsAt, Demands, i, w
<1>3. CASE prog.kind[k.loc] \in {"copy", "gep"}
  <2>1. y \in Reached(w, i, G, None)
    <3> HIDE DEF i, w
    <3> QED
      BY <1>1, <1>3 DEF DemandsAt, Demands, i, w
  <2>2. G \in SUBSET Edge /\ \A g \in G : ~g.ind
    BY RestParts
  <2>3. G = {g \in Links : g.dst = k.loc /\ ~g.ind}
    BY <1>1
  <2> HIDE DEF G
  <2>4. \E g \in G : y = ItemAt(Source(g, None))
    BY <2>1, <2>2, ReachedSource
  <2> QED
    BY <1>3, <2>3, <2>4 DEF FlowInto, DirectKeys
<1>4. CASE prog.kind[k.loc] = "mr"
  <2>1. y \in Memory(w, Links, i, Any(k.cur))
    <3> HIDE DEF i, w
    <3> QED
      BY <1>1, <1>4 DEF DemandsAt, Demands, i, w
  <2>2. \E d \in MemoryKeys(prog, Links, k, k.cur) : y = ItemAt(d)
    BY <2>1, MemoryAsked
  <2> QED
    BY <1>4, <2>2 DEF FlowInto
<1>5. CASE prog.kind[k.loc] = "load"
  <2>1. PICK c \in pts : y \in Memory(w, Links, i, c)
    <3> HIDE DEF i, w
    <3> QED
      BY <1>1, <1>5 DEF DemandsAt, Demands, i, w
  <2>2. c = Any(c.id) /\ c.id \in B
    BY PointsToBase
  <2>3. \E d \in MemoryKeys(prog, Links, k, c.id) : y = ItemAt(d)
    BY <2>1, <2>2, MemoryAsked
  <2>4. FlowFor(prog, Links, k, B, c.id) = MemoryKeys(prog, Links, k, c.id)
    BY <1>5 DEF FlowFor
  <2> HIDE DEF B
  <2>5. FlowFor(prog, Links, k, B, c.id) \subseteq FlowInto(prog, Links, k, B)
    BY <1>5, <2>2 DEF FlowInto
  <2> QED
    BY <2>3, <2>4, <2>5 DEF B
<1>6. CASE prog.kind[k.loc] = "store"
  BY <1>6, StoreAsked
<1> QED
  BY <1>1, <1>2, <1>3, <1>4, <1>5, <1>6

(* The results of a gep have no context either.                            *)
LEMMA GepPtsPlain ==
  ASSUME prog \in Programs, NEW k \in Var, NEW pts \in SUBSET FlowVar, NEW p, p.field = prog.field,
         NEW c \in GepPts(p, k, pts)
  PROVE  \E b \in pts : c = Any(p.field[k][b.id])
<1> DEFINE fields == {[b EXCEPT !.id = p.field[k][b.id]] : b \in pts}
<1>1. \A f \in fields : \E b \in pts : f = Any(p.field[k][b.id])
  <2> SUFFICES ASSUME NEW b \in pts
               PROVE  [b EXCEPT !.id = p.field[k][b.id]] = Any(p.field[k][b.id])
    OBVIOUS
  <2> DEFINE o == p.field[k][b.id]
             d == [b EXCEPT !.id = o]
  <2>1. b \in FlowVar /\ o \in Obj
    <3>1. prog.field[k] \in [Obj -> Obj] /\ p.field[k] = prog.field[k] /\ b \in FlowVar /\ b.id \in Obj
      BY ProgramParts DEF FlowVar
    <3> QED
      BY <3>1
  <2> HIDE DEF o
  <2>2. d \in FlowVar /\ d.id = o /\ d.cxt = <<>> /\ d.conc = TRUE
    BY <2>1 DEF FlowVar
  <2> HIDE DEF d
  <2>3. d = Any(o)
    BY <2>2 DEF FlowVar, Any
  <2> QED
    BY <2>3 DEF d, o
<1> HIDE DEF fields
<1>2. \A f \in fields : (CHOOSE d \in fields : SameElement(f, d)) \in fields
  BY DEF SameElement
<1>3. GepPts(p, k, pts) = {CHOOSE d \in fields : SameElement(f, d) : f \in fields}
  BY DEF GepPts, fields
<1> QED
  BY <1>1, <1>2, <1>3

(* All values that a visited item is to have it has.                       *)
LEMMA FlowMarked ==
  ASSUME AtRest, NEW k \in Marks
  PROVE  LET K == FlowInto(prog, Links, k, Base(prog, Links, Values, k)) IN
         /\ K \in SUBSET Marks
         /\ \A d \in K : Gives(prog, k, Found(Values, d), Found(Values, k))
         /\ \A y \in DemandsAt(k).flow : \E d \in K : y = ItemAt(d)
BY AtKey, FlowAsked DEF Done

LEMMA ValueMet ==
  ASSUME AtRest, NEW k \in Marks,
         NEW c \in Value(Narrowed, ItemAt(k), ValuesAt(FlowResult.values, DemandsAt(k).flow))
  PROVE  [at |-> ItemAt(k), to |-> c] \in FlowResult.values
<1> DEFINE i == ItemAt(k)
           flow == ValuesAt(FlowResult.values, DemandsAt(k).flow)
           K == FlowInto(prog, Links, k, Base(prog, Links, Values, k))
<1>1. /\ i.loc = k.loc /\ i.cxt = <<>> /\ i.conc = TRUE /\ prog \in Programs
      /\ prog.kind[k.loc] \in {"addr", "copy", "gep", "load", "store", "mr"}
      /\ k.loc \in Mem <=> prog.kind[k.loc] \in {"store", "mr"}
      /\ k.loc \in Mem <=> k.loc \notin Var
      /\ k.loc \in Node
      /\ Done(prog, Marks, Values, Links, k)
  BY AtKey
<1>2. Narrowed.kind = prog.kind /\ Narrowed.obj = prog.obj /\ Narrowed.field = prog.field
  BY <1>1, NarrowedParts
<1>3. /\ K \in SUBSET Marks
      /\ \A d \in K : Gives(prog, k, Found(Values, d), Found(Values, k))
      /\ \A y \in DemandsAt(k).flow : \E d \in K : y = ItemAt(d)
  BY FlowMarked
<1> HIDE DEF K
<1>4. \A b \in flow : b \in FlowVar /\ b = Any(b.id) /\ \E d \in K : b.id \in Found(Values, d)
  BY <1>3, ValueFound
<1>5. k.loc \in Var <=> k.loc \notin Mem
  BY <1>1
<1> HIDE DEF i, flow
<1>6. \E o \in Found(Values, k) : c = Any(o)
  <2>1. CASE prog.kind[k.loc] = "addr"
    <3>1. c = Any(prog.obj[k.loc])
      BY <1>1, <1>2, <2>1 DEF Value, Any, i, flow
    <3> QED
      BY <1>1, <2>1, <3>1 DEF Done
  <2>2. CASE prog.kind[k.loc] = "gep"
    <3>1. c \in GepPts(Narrowed, k.loc, flow)
      BY <1>1, <1>2, <2>2 DEF Value, i, flow
    <3>2. k.loc \in Var /\ flow \in SUBSET FlowVar
      BY <1>1, <1>4, <2>2
    <3>3. PICK b \in flow : c = Any(prog.field[k.loc][b.id])
      BY <1>1, <1>2, <3>1, <3>2, GepPtsPlain
    <3>4. prog.field[k.loc][b.id] \in Found(Values, k)
      BY <1>3, <1>4, <2>2 DEF Gives
    <3> QED
      BY <3>3, <3>4
  <2>3. CASE prog.kind[k.loc] \notin {"addr", "gep"}
    <3>1. c \in flow
      BY <1>1, <1>2, <2>3 DEF Value, i, flow
    <3>2. c.id \in Found(Values, k)
      BY <1>3, <1>4, <2>3, <3>1 DEF Gives
    <3> QED
      BY <1>4, <3>1, <3>2
  <2> QED
    BY <2>1, <2>2, <2>3
<1> QED
  BY <1>6, FoundValue DEF i

LEMMA SettledSolves ==
  ASSUME AtRest
  PROVE  SolvesFlow(Narrowed, FlowResult)
<1> DEFINE p == Narrowed
           s == FlowResult
           t == Round(p, "flow", s.items, s.values, s.calls)
           D(i) == Demands(View(p, s.calls, s.calls, "flow"), EdgesOf(p, s.calls), i, s.values)
           demands == [i \in s.items |-> D(i)]
           V(i) == Value(p, i, ValuesAt(s.values, demands[i].flow))
           more == s.values \union UNION {{[at |-> i, to |-> c] : c \in V(i)} : i \in s.items}
<1>1. /\ prog \in Programs /\ p.calls = prog.calls /\ p.icalls = prog.icalls /\ p.edges = prog.edges
      /\ p.queries = (IF prog.engine = "flow" THEN Asked ELSE {})
  BY RestParts, NarrowedParts
<1>2. /\ \A k \in Marks : k \in Key /\ FlowKey(k)
      /\ \A m \in Values : m.at \in Key /\ FlowKey(m.at) /\ m.to \in CVar /\ m.to.cxt = <<>>
      /\ s.items = {ItemAt(k) : k \in Marks} /\ s.calls = called["flow"]
      /\ s.values = {[at |-> ItemAt(m.at), to |-> [m.to EXCEPT !.conc = TRUE]] : m \in Values}
      /\ Linked(prog, Values, Links, called["flow"], sccCalls["flow"])
  BY RestParts
<1>3. EdgesOf(p, s.calls) = Links /\ prog.calls \subseteq s.calls
  BY <1>1, <1>2 DEF Linked, EdgesOf
<1>4. View(p, s.calls, s.calls, "flow") = FlowView
  BY <1>2 DEF FlowView
<1>5. /\ t.items = s.items \union UNION {demands[i].base \union demands[i].flow : i \in s.items}
      /\ t.values = more
      /\ t.calls = s.calls \union {c.id : c \in {x \in p.icalls :
                            \E m \in more : m.at.loc = x.fp /\ m.to.id = x.target}}
  BY DEF Round
<1> HIDE DEF t, p
<1>6. ASSUME NEW k \in Marks
      PROVE  /\ ItemAt(k) \in s.items /\ demands[ItemAt(k)] = DemandsAt(k)
             /\ V(ItemAt(k)) = Value(p, ItemAt(k), ValuesAt(s.values, DemandsAt(k).flow))
  <2>1. ItemAt(k) \in s.items
    BY <1>2, <1>6
  <2>2. D(ItemAt(k)) = DemandsAt(k)
    BY <1>3, <1>4 DEF DemandsAt
  <2> HIDE DEF D
  <2>3. demands[ItemAt(k)] = D(ItemAt(k))
    BY <2>1
  <2> HIDE DEF demands
  <2> QED
    BY <2>1, <2>2, <2>3
<1> HIDE DEF demands
<1>7. t.items \subseteq s.items
  <2> SUFFICES ASSUME NEW k \in Marks
               PROVE  demands[ItemAt(k)].base \union demands[ItemAt(k)].flow \subseteq s.items
    BY <1>2, <1>5
  <2>1. DemandsAt(k).base \subseteq s.items
    BY BaseMet
  <2>2. ASSUME NEW y \in DemandsAt(k).flow PROVE y \in s.items
    BY <1>2, FlowMarked
  <2> QED
    BY <1>6, <2>1, <2>2
<1>8. more = s.values
  <2>1. ASSUME NEW i \in s.items, NEW c \in V(i) PROVE [at |-> i, to |-> c] \in s.values
    <3>1. PICK k \in Marks : i = ItemAt(k)
      BY <1>2, <2>1
    <3>2. c \in Value(p, ItemAt(k), ValuesAt(s.values, DemandsAt(k).flow))
      BY <1>6, <2>1, <3>1
    <3> QED
      BY <3>1, <3>2, ValueMet DEF p
  <2> HIDE DEF V
  <2> QED
    BY <2>1
<1> HIDE DEF more, V
<1>9. \A i \in s.items : FlowItem(i)
  BY <1>2, ItemAtParts
<1>10. \A m \in s.values : m.to \in FlowVar
  <2> SUFFICES ASSUME NEW m \in Values PROVE [m.to EXCEPT !.conc = TRUE] \in FlowVar
    BY <1>2
  <2> DEFINE c == m.to
  <2>1. c \in CVar /\ c.cxt = <<>> /\ c.id \in Obj
    BY <1>2 DEF CVar
  <2> HIDE DEF c
  <2>2. [c EXCEPT !.conc = TRUE] \in FlowVar
    BY <2>1, PlainValue DEF Any, FlowVar
  <2> QED
    BY <2>2 DEF c
<1>11. Roots(p.queries) \subseteq s.items
  <2> SUFFICES ASSUME NEW v \in p.queries PROVE RootOf(v) \in s.items
    BY DEF Roots
  <2>1. prog.engine = "flow" /\ v \in Asked /\ v \in Var
    BY <1>1, ProgramParts DEF Asked
  <2>2. KeyOf(v, v) \in Marks
    BY <2>1, RestParts
  <2>3. ItemAt(KeyOf(v, v)) = RootOf(v)
    BY <2>1, ItemAtKey DEF FlowOf, RootOf
  <2> QED
    BY <1>2, <2>2, <2>3
<1>12. t.calls \subseteq s.calls
  <2> SUFFICES ASSUME NEW x \in prog.icalls, NEW m \in s.values, m.at.loc = x.fp, m.to.id = x.target
               PROVE  x.id \in s.calls
    BY <1>1, <1>5, <1>8
  <2>1. PICK y \in Values : m = [at |-> ItemAt(y.at), to |-> [y.to EXCEPT !.conc = TRUE]]
    BY <1>2
  <2>2. m.at = ItemAt(y.at) /\ m.to = Any(y.to.id)
    BY <1>2, <2>1, PlainValue
  <2>3. y.at.loc = x.fp /\ y.to.id = x.target /\ FlowKey(y.at) /\ y.at \in Key
    <3>1. FlowKey(y.at) /\ y.at \in Key
      BY <1>2
    <3>2. ItemAt(y.at).loc = y.at.loc
      BY <3>1, ItemAtParts
    <3>3. Any(y.to.id).id = y.to.id
      BY DEF Any
    <3> QED
      BY <2>2, <3>1, <3>2, <3>3
  <2>4. x.fp \in Var
    BY <1>1, ProgramParts
  <2>5. y.at = KeyOf(x.fp, x.fp)
    BY <2>3, <2>4 DEF FlowKey, Key, KeyOf
  <2>6. x.target \in Found(Values, KeyOf(x.fp, x.fp))
    BY <2>3, <2>5 DEF Found
  <2> QED
    BY <1>2, <2>6 DEF Linked
<1>13. t.items \subseteq s.items /\ t.values \subseteq s.values /\ t.calls \subseteq s.calls
  BY <1>5, <1>7, <1>8, <1>12
<1> QED
  BY <1>1, <1>3, <1>9, <1>10, <1>11, <1>13 DEF SolvesFlow, t, p

(* Between its queries, what FlowDDA has found solves the flow-sensitive   *)
(* equations for all that was asked, as long as it stays within its budget *)
(* and meets no call that closes a recursion.                              *)
THEOREM SettlesOnSolution == Spec => []FlowSettled
<1> DEFINE Inv == Valid /\ IInv /\ Turn /\ Spent /\ (Faithful => Sound)
<1>1. Init => Inv
  <2> SUFFICES ASSUME Init PROVE Inv
    OBVIOUS
  <2>1. Valid /\ IInv
    BY InitType, InitFine
  <2>2. Turn
    BY DEF Init, Turn
  <2> QED
    BY <2>1, <2>2, InitSound
<1>2. Inv /\ [Next]_vars => Inv'
  <2> SUFFICES ASSUME Inv, [Next]_vars PROVE Inv'
    OBVIOUS
  <2>1. Valid' /\ IInv' /\ Turn'
    BY NextType, NextFine, TurnNext
  <2>2. Spent'
    BY SpentNext
  <2>3. Faithful' => Sound'
    BY FaithfulBefore, SoundNext
  <2> QED
    BY <2>1, <2>2, <2>3
<1>3. Inv => FlowSettled
  <2> SUFFICES ASSUME Inv, engine = "flow" => pc = "answered", InBudget, RecursionKnown(called["flow"])
               PROVE  SolvesFlow(Narrowed, FlowResult)
    BY DEF FlowSettled, Narrowed
  <2>1. Sound /\ Faithful
    BY DEF Faithful
  <2>2. FlowStack = <<>>
    BY DEF Spent, FlowStack
  <2> QED
    BY <2>1, <2>2, SettledSolves DEF AtRest
<1> QED
  BY <1>1, <1>2, <1>3, PTL DEF Spec
=============================================================================
