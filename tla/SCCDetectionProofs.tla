------------------------- MODULE SCCDetectionProofs -------------------------
(***************************************************************************)
(* Cycle detection is right for every sequence of graphs: a component is   *)
(* decided as a whole and for good, the components are the strongly        *)
(* connected ones, and the roots are stacked in topological order.         *)
(***************************************************************************)
EXTENDS SCCDetection, SequenceTheorems, FiniteSetTheorems, TLAPS

Open == visited \ inSCC
Waiting == {SS[i] : i \in DOMAIN SS}
OnPath == {frames[i].node : i \in DOMAIN frames}

Frame == [node : Node, left : SUBSET Node, child : Node \union {None}]

(* Indices of a sequence that grows or shrinks by one.                     *)
LEMMA Positions ==
  ASSUME NEW k \in Nat
  PROVE  /\ \A i \in 1..k : i = k \/ i \in 1..k - 1
         /\ \A i \in 1..k + 1 : i = k + 1 \/ (i = k /\ k > 0) \/ i \in 1..k - 1
         /\ \A i \in 1..k - 1 : i \in 1..k /\ i + 1 \in 1..k /\ i < k /\ i # k
         /\ k > 0 => k \in 1..k
  OBVIOUS

(* What one call of visit() may do to the stack of calls.                  *)
LEMMA BelowFacts ==
  ASSUME frames \in Seq(Frame), frames # <<>>
  PROVE  /\ Len(frames) \in Nat \ {0} /\ DOMAIN frames = 1..Len(frames)
         /\ top = frames[Len(frames)] /\ top \in Frame
         /\ Below \in Seq(Frame) /\ Len(Below) = Len(frames) - 1
         /\ DOMAIN Below = 1..Len(frames) - 1
         /\ \A i \in 1..Len(frames) - 1 : Below[i] = frames[i]
<1>1. Len(frames) \in Nat \ {0} /\ DOMAIN frames = 1..Len(frames)
  BY EmptySeq, LenProperties
<1>2. top = frames[Len(frames)] /\ top \in Frame
  BY <1>1, ElementOfSeq DEF top
<1>3. /\ Below \in Seq(Frame) /\ Len(Below) = Len(frames) - 1
      /\ \A i \in 1..Len(frames) - 1 : Below[i] = frames[i]
  BY <1>1, SubSeqProperties, 1 \in 1..Len(frames) + 1, Len(frames) - 1 \in 0..Len(frames)
     DEF Below
<1> QED
  BY <1>1, <1>2, <1>3, LenProperties

(* A sequence with one more element.                                       *)
LEMMA AppendFacts ==
  ASSUME NEW S, NEW s \in Seq(S), NEW x \in S
  PROVE  /\ Append(s, x) \in Seq(S) /\ Len(Append(s, x)) = Len(s) + 1
         /\ Len(s) \in Nat /\ DOMAIN s = 1..Len(s)
         /\ DOMAIN Append(s, x) = 1..Len(s) + 1
         /\ Append(s, x)[Len(s) + 1] = x
         /\ \A i \in 1..Len(s) : Append(s, x)[i] = s[i]
  BY AppendProperties, LenProperties

(* The stack of calls with another frame on top.                           *)
LEMMA ReplaceTop ==
  ASSUME frames \in Seq(Frame), frames # <<>>, NEW f \in Frame
  PROVE  /\ Append(Below, f) \in Seq(Frame) /\ Len(Append(Below, f)) = Len(frames)
         /\ DOMAIN Append(Below, f) = DOMAIN frames
         /\ Append(Below, f)[Len(frames)] = f
         /\ \A i \in 1..Len(frames) - 1 : Append(Below, f)[i] = frames[i]
<1>1. /\ Len(frames) \in Nat \ {0} /\ DOMAIN frames = 1..Len(frames)
      /\ Below \in Seq(Frame) /\ Len(Below) = Len(frames) - 1
      /\ \A i \in 1..Len(frames) - 1 : Below[i] = frames[i]
  BY BelowFacts
<1> DEFINE s == Below
           g == Append(s, f)
<1>2. s \in Seq(Frame) /\ Len(s) = Len(frames) - 1
  BY <1>1
<1>3. \A i \in 1..Len(frames) - 1 : s[i] = frames[i]
  BY <1>1
<1> HIDE DEF s
<1>4. /\ g \in Seq(Frame) /\ Len(g) = Len(s) + 1
      /\ DOMAIN g = 1..Len(s) + 1 /\ g[Len(s) + 1] = f
      /\ \A i \in 1..Len(s) : g[i] = s[i]
  BY <1>2, AppendFacts
<1> HIDE DEF g
<1>5. /\ g \in Seq(Frame) /\ Len(g) = Len(frames) /\ DOMAIN g = DOMAIN frames
      /\ g[Len(frames)] = f
      /\ \A i \in 1..Len(frames) - 1 : g[i] = frames[i]
  BY <1>1, <1>2, <1>3, <1>4
<1> QED
  BY <1>5 DEF s, g

-----------------------------------------------------------------------------
(* Types need that whoever is named in a frame or as a candidate has been  *)
(* visited.                                                                *)
Named ==
  /\ pc = "done" => frames = <<>>
  /\ \A n \in visited : rep[n] \in visited
  /\ Waiting \subseteq visited /\ IsFiniteSet(visited)
  /\ \A i \in DOMAIN frames :
       /\ frames[i].node \in visited /\ frames[i].child \in visited \union {None}
       /\ frames[i].left \subseteq graph.nodes

TInv == TypeOK /\ Named

(* At first nothing has been numbered.                                     *)
LEMMA InitTyped == Init => TInv
<1> SUFFICES ASSUME Init PROVE TInv
  OBVIOUS
<1>1. Waiting = {} /\ DOMAIN frames = {}
  BY DEF Init, Waiting
<1>2. SS \in Seq(Node) /\ T \in Seq(Node) /\ frames \in Seq(Frame)
  BY EmptySeq DEF Init
<1> QED
  BY <1>1, <1>2, FS_EmptySet DEF Init, TInv, TypeOK, Named, Frame

(* Edges lead to nodes of the graph.                                       *)
LEMMA ChildrenAreNodes ==
  ASSUME TypeOK, NEW v
  PROVE  Children(v) \subseteq graph.nodes
  BY DEF TypeOK, Children

(* find() starts again on any graph: clear() resets everything.            *)
LEMMA FindTyped == TInv /\ Find => TInv'
<1> SUFFICES ASSUME TInv, Find PROVE TInv'
  OBVIOUS
<1> USE DEF TInv, Find, Clear
<1>1. graph'.nodes \subseteq Node /\ graph'.edges \subseteq graph'.nodes \X graph'.nodes
  BY GraphAssumption
<1>2. frames' = <<>> /\ SS' = <<>> /\ T' = <<>>
  BY DEF Named
<1>3. SS' \in Seq(Node) /\ T' \in Seq(Node) /\ frames' \in Seq(Frame)
  BY <1>2, EmptySeq
<1>4. D' \in [Node -> 0..I'] /\ I' \in Nat
  OBVIOUS
<1>5. TypeOK'
  BY <1>1, <1>3, <1>4 DEF TypeOK, Frame
<1>6. DOMAIN frames' = {} /\ Waiting' = {}
  BY <1>2 DEF Waiting
<1> QED
  BY <1>2, <1>5, <1>6, FS_EmptySet DEF Named

(* A call of visit() keeps the types: the frames it is called from are fs. *)
LEMMA VisitTyped ==
  ASSUME TInv, NEW v \in graph.nodes, NEW fs \in Seq(Frame), Visit(v, fs)
  PROVE  /\ I' \in Nat /\ D' \in [Node -> 0..I']
         /\ visited' = visited \union {v} /\ visited' \subseteq graph.nodes
         /\ IsFiniteSet(visited')
         /\ rep' \in [Node -> Node \union {None}] /\ subNodes' \in [Node -> SUBSET Node]
         /\ repNodes' = repNodes
         /\ rep' = [rep EXCEPT ![v] = v] /\ D' = [D EXCEPT ![v] = I']
         /\ \A n \in visited' : rep'[n] \in visited'
         /\ frames' \in Seq(Frame) /\ DOMAIN frames' = 1..Len(fs) + 1 /\ Len(frames') = Len(fs) + 1
         /\ frames'[Len(fs) + 1] = [node |-> v, left |-> Children(v), child |-> None]
         /\ \A i \in 1..Len(fs) : frames'[i] = fs[i]
<1> USE DEF TInv, Visit
<1>1. v \in Node
  BY DEF TypeOK
<1>2. I' \in Nat /\ D' \in [Node -> 0..I']
  BY <1>1 DEF TypeOK
<1>3. /\ visited' = visited \union {v} /\ visited' \subseteq graph.nodes
      /\ IsFiniteSet(visited')
  BY FS_AddElement DEF TypeOK, Named
<1>4. rep' = [rep EXCEPT ![v] = v] /\ rep' \in [Node -> Node \union {None}]
  BY <1>1 DEF TypeOK, SetReps
<1>5. subNodes' \in [Node -> SUBSET Node] /\ repNodes' = repNodes
  BY <1>1 DEF TypeOK, SetReps
<1>6. \A n \in visited' : rep'[n] \in visited'
  BY <1>1, <1>3, <1>4 DEF TypeOK, Named
<1>7. [node |-> v, left |-> Children(v), child |-> None] \in Frame
  BY <1>1, ChildrenAreNodes DEF TypeOK, Frame
<1>8. /\ frames' \in Seq(Frame) /\ DOMAIN frames' = 1..Len(fs) + 1 /\ Len(frames') = Len(fs) + 1
      /\ frames'[Len(fs) + 1] = [node |-> v, left |-> Children(v), child |-> None]
      /\ \A i \in 1..Len(fs) : frames'[i] = fs[i]
  BY <1>7, AppendFacts
<1> QED
  BY <1>2, <1>3, <1>4, <1>5, <1>6, <1>8


(* What waits is what is on SS.                                            *)
LEMMA WaitingSame == UNCHANGED SS => Waiting' = Waiting
  BY DEF Waiting

(* An iteration of the loop of find().                                     *)
LEMMA NextRootTyped == TInv /\ NextRoot => TInv'
<1> SUFFICES ASSUME TInv, NextRoot PROVE TInv'
  OBVIOUS
<1>1. PICK n \in left :
        /\ left' = left \ {n}
        /\ IF n \in visited THEN UNCHANGED <<I, D, info, frames>>
           ELSE Visit(n, frames) /\ UNCHANGED inSCC
  BY DEF NextRoot
<1>2. frames = <<>> /\ UNCHANGED <<graph, pc, SS, T>> /\ pc = "find" /\ left' \subseteq graph.nodes
      /\ n \in graph.nodes /\ Waiting' = Waiting
  BY <1>1, WaitingSame DEF NextRoot, TInv, TypeOK
<1>3. CASE n \in visited
  BY <1>1, <1>2, <1>3 DEF TInv, TypeOK, Named, info
<1>4. CASE n \notin visited
  <2>1. Visit(n, frames) /\ inSCC' = inSCC
    BY <1>1, <1>4
  <2>2. frames \in Seq(Frame) /\ Len(frames) = 0
    BY <1>2, EmptySeq DEF TInv, TypeOK, Frame
  <2>3. /\ I' \in Nat /\ D' \in [Node -> 0..I']
        /\ visited' = visited \union {n} /\ visited' \subseteq graph.nodes
        /\ IsFiniteSet(visited')
        /\ rep' \in [Node -> Node \union {None}] /\ subNodes' \in [Node -> SUBSET Node]
        /\ repNodes' = repNodes /\ \A m \in visited' : rep'[m] \in visited'
        /\ frames' \in Seq(Frame) /\ DOMAIN frames' = 1..Len(frames) + 1
        /\ frames'[Len(frames) + 1] = [node |-> n, left |-> Children(n), child |-> None]
    BY <1>2, <2>1, <2>2, VisitTyped
  <2>4. TypeOK'
    BY <1>2, <2>1, <2>3 DEF TInv, TypeOK, Frame
  <2>5. DOMAIN frames' = {1} /\ frames'[1] = [node |-> n, left |-> Children(n), child |-> None]
    BY <2>2, <2>3
  <2>6. Named'
    BY <1>2, <2>3, <2>5, ChildrenAreNodes DEF TInv, Named
  <2> QED
    BY <2>4, <2>6 DEF TInv
<1> QED
  BY <1>3, <1>4

(* An iteration of the loop over children in visit().                      *)
LEMMA NextChildTyped == TInv /\ NextChild => TInv'
<1> SUFFICES ASSUME TInv, NextChild PROVE TInv'
  OBVIOUS
<1> DEFINE fs(w) == Append(Below, [top EXCEPT !.left = @ \ {w}, !.child = w])
<1>1. PICK w \in top.left :
        IF w \in visited THEN frames' = fs(w) /\ UNCHANGED <<I, D, info>>
        ELSE Visit(w, fs(w)) /\ UNCHANGED inSCC
  BY DEF NextChild
<1>2. frames # <<>> /\ UNCHANGED <<graph, pc, SS, T, left>> /\ Waiting' = Waiting
      /\ frames \in Seq(Frame)
  BY WaitingSame DEF NextChild, TInv, TypeOK, Frame
<1>3. /\ Len(frames) \in Nat \ {0} /\ DOMAIN frames = 1..Len(frames)
      /\ top = frames[Len(frames)] /\ top \in Frame
  BY <1>2, BelowFacts
<1>4. top.left \subseteq graph.nodes /\ top.node \in visited /\ pc # "done"
  BY <1>2, <1>3, Len(frames) \in DOMAIN frames DEF TInv, Named
<1>5. w \in graph.nodes /\ w \in Node
  BY <1>4 DEF TInv, TypeOK
<1>6. [top EXCEPT !.left = @ \ {w}, !.child = w] \in Frame
  BY <1>3, <1>5 DEF Frame
<1>7. /\ fs(w) \in Seq(Frame) /\ Len(fs(w)) = Len(frames) /\ DOMAIN fs(w) = DOMAIN frames
      /\ fs(w)[Len(frames)] = [top EXCEPT !.left = @ \ {w}, !.child = w]
      /\ \A i \in 1..Len(frames) - 1 : fs(w)[i] = frames[i]
  BY <1>2, <1>6, ReplaceTop
<1> HIDE DEF fs
<1>8. \A i \in DOMAIN fs(w) :
        /\ fs(w)[i].node \in visited /\ fs(w)[i].child \in visited \union {None, w}
        /\ fs(w)[i].left \subseteq graph.nodes
  <2> TAKE i \in DOMAIN fs(w)
  <2>1. CASE i = Len(frames)
    BY <1>3, <1>4, <1>7, <2>1 DEF Frame
  <2>2. CASE i # Len(frames)
    <3>1. i \in 1..Len(frames) - 1
      BY <1>3, <1>7, <2>2
    <3>2. fs(w)[i] = frames[i] /\ i \in DOMAIN frames
      BY <1>3, <1>7, <3>1
    <3> QED
      BY <3>2 DEF TInv, Named
  <2> QED
    BY <2>1, <2>2
<1>9. CASE w \in visited
  <2>1. TypeOK'
    BY <1>1, <1>2, <1>7, <1>9 DEF TInv, TypeOK, Frame, info
  <2>2. Named'
    BY <1>1, <1>2, <1>4, <1>8, <1>9 DEF TInv, Named, info
  <2> QED
    BY <2>1, <2>2 DEF TInv
<1>10. CASE w \notin visited
  <2>1. Visit(w, fs(w)) /\ inSCC' = inSCC
    BY <1>1, <1>10
  <2>2. /\ I' \in Nat /\ D' \in [Node -> 0..I']
        /\ visited' = visited \union {w} /\ visited' \subseteq graph.nodes
        /\ IsFiniteSet(visited')
        /\ rep' \in [Node -> Node \union {None}] /\ subNodes' \in [Node -> SUBSET Node]
        /\ repNodes' = repNodes /\ \A m \in visited' : rep'[m] \in visited'
        /\ frames' \in Seq(Frame) /\ DOMAIN frames' = 1..Len(fs(w)) + 1
        /\ frames'[Len(fs(w)) + 1] = [node |-> w, left |-> Children(w), child |-> None]
        /\ \A i \in 1..Len(fs(w)) : frames'[i] = fs(w)[i]
    BY <1>5, <1>7, <2>1, VisitTyped
  <2>3. TypeOK'
    BY <1>2, <2>1, <2>2 DEF TInv, TypeOK, Frame
  <2>4. \A i \in DOMAIN frames' :
          /\ frames'[i].node \in visited' /\ frames'[i].child \in visited' \union {None}
          /\ frames'[i].left \subseteq graph.nodes
    <3> TAKE i \in DOMAIN frames'
    <3>1. CASE i = Len(fs(w)) + 1
      BY <1>5, <2>2, <3>1, ChildrenAreNodes DEF TInv
    <3>2. CASE i # Len(fs(w)) + 1
      <4>1. i \in 1..Len(fs(w)) /\ i \in DOMAIN fs(w)
        BY <1>3, <1>7, <2>2, <3>2
      <4>2. frames'[i] = fs(w)[i]
        BY <2>2, <4>1
      <4> QED
        BY <1>8, <2>2, <4>1, <4>2
    <3> QED
      BY <3>1, <3>2
  <2>5. Named'
    BY <1>2, <1>4, <2>2, <2>4 DEF TInv, Named
  <2> QED
    BY <2>3, <2>5 DEF TInv
<1> QED
  BY <1>9, <1>10

(* A call of visit() goes on when its callee has returned.                 *)
LEMMA ReturnTyped == TInv /\ ReturnFromChild => TInv'
<1> SUFFICES ASSUME TInv, ReturnFromChild PROVE TInv'
  OBVIOUS
<1> DEFINE v == top.node
           w == top.child
           r == IF D[rep[v]] < D[rep[w]] THEN rep[v] ELSE rep[w]
<1>1. /\ frames # <<>> /\ frames \in Seq(Frame) /\ w # None
      /\ frames' = Append(Below, [top EXCEPT !.child = None])
      /\ UNCHANGED <<graph, pc, I, D, visited, inSCC, SS, T, left>> /\ Waiting' = Waiting
  BY WaitingSame DEF ReturnFromChild, TInv, TypeOK, Frame
<1>2. /\ Len(frames) \in Nat \ {0} /\ DOMAIN frames = 1..Len(frames)
      /\ top = frames[Len(frames)] /\ top \in Frame
  BY <1>1, BelowFacts
<1>3. v \in visited /\ w \in visited /\ top.left \subseteq graph.nodes /\ pc # "done"
  BY <1>1, <1>2, Len(frames) \in DOMAIN frames DEF TInv, Named
<1>4. v \in Node /\ rep[v] \in visited /\ rep[w] \in visited /\ r \in visited
  BY <1>3 DEF TInv, TypeOK, Named
<1>5. r \in Node /\ r \in graph.nodes
  BY <1>4 DEF TInv, TypeOK
<1>6. [top EXCEPT !.child = None] \in Frame
  BY <1>2 DEF Frame
<1>7. /\ frames' \in Seq(Frame) /\ DOMAIN frames' = DOMAIN frames
      /\ frames'[Len(frames)] = [top EXCEPT !.child = None]
      /\ \A i \in 1..Len(frames) - 1 : frames'[i] = frames[i]
  BY <1>1, <1>6, ReplaceTop
<1>8. \A i \in DOMAIN frames' :
        /\ frames'[i].node \in visited /\ frames'[i].child \in visited \union {None}
        /\ frames'[i].left \subseteq graph.nodes
  <2> TAKE i \in DOMAIN frames'
  <2>1. CASE i = Len(frames)
    BY <1>2, <1>3, <1>7, <2>1 DEF Frame
  <2>2. CASE i # Len(frames)
    BY <1>2, <1>7, <2>2 DEF TInv, Named
  <2> QED
    BY <2>1, <2>2
<1>9. UNCHANGED <<rep, subNodes, repNodes>> \/ SetReps({v}, r)
  BY DEF ReturnFromChild
<1> HIDE DEF v, w, r
<1>10. /\ rep' \in [Node -> Node \union {None}] /\ subNodes' \in [Node -> SUBSET Node]
       /\ repNodes' \subseteq graph.nodes /\ \A n \in visited : rep'[n] \in visited
  <2>1. CASE UNCHANGED <<rep, subNodes, repNodes>>
    BY <2>1 DEF TInv, TypeOK, Named
  <2>2. CASE SetReps({v}, r)
    BY <1>4, <1>5, <2>2 DEF TInv, TypeOK, Named, SetReps
  <2> QED
    BY <1>9, <2>1, <2>2
<1>11. TypeOK'
  BY <1>1, <1>7, <1>10 DEF TInv, TypeOK, Frame
<1>12. Named'
  BY <1>1, <1>3, <1>8, <1>10 DEF TInv, Named
<1> QED
  BY <1>11, <1>12 DEF TInv

-----------------------------------------------------------------------------
(* What a root takes: the nodes that wait above the last older one.        *)
Older == {i \in DOMAIN SS : D[SS[i]] <= D[top.node]}
Keep == IF Older = {} THEN 0 ELSE CHOOSE i \in Older : \A j \in Older : j <= i
Taken == {SS[i] : i \in Keep + 1..Len(SS)}

(* A non-empty set of indices has a largest one.                           *)
LEMMA LargestOfSome ==
  ASSUME NEW n \in Nat, NEW S \in SUBSET (1..n), S # {}
  PROVE  \E i \in S : \A j \in S : j <= i
<1> DEFINE Above(i) == {j \in S : i <= j}
           C == {Above(i) : i \in S}
<1>1. IsWellFoundedOn(StrictSubsetOrdering(1..n), SUBSET (1..n))
  <2> DEFINE N == 1..n
  <2>1. IsFiniteSet(N)
    BY FS_Interval
  <2> HIDE DEF N
  <2>2. FiniteSubsetsOf(N) = SUBSET N
    BY <2>1, FS_FiniteSubsetsOfFinite
  <2>3. IsWellFoundedOn(StrictSubsetOrdering(N), FiniteSubsetsOf(N))
    BY FS_StrictSubsetOrderingWellFounded
  <2> QED
    BY <2>2, <2>3 DEF N
<1>2. C \subseteq SUBSET (1..n) /\ C # {}
  OBVIOUS
<1>3. \E U \in C : \A W \in C : <<W, U>> \notin StrictSubsetOrdering(1..n)
  <2> HIDE DEF C
  <2> QED
    BY <1>1, <1>2, WFMin
<1>4. PICK i \in S : \A j \in S : <<Above(j), Above(i)>> \notin StrictSubsetOrdering(1..n)
  BY <1>3
<1>5. ASSUME NEW j \in S, i < j PROVE FALSE
  <2>0. i \in Nat /\ \A k \in S : k \in Nat
    OBVIOUS
  <2> HIDE DEF C
  <2>1. Above(j) \subseteq Above(i) /\ i \in Above(i) /\ i \notin Above(j)
    <3>1. ASSUME NEW k \in S, j <= k PROVE i <= k
      <4>1. i \in Nat /\ j \in Nat /\ k \in Nat
        BY <2>0
      <4> QED
        BY <1>5, <3>1, <4>1
    <3>2. i <= i /\ ~ (j <= i)
      BY <1>5, <2>0
    <3> QED
      BY <3>1, <3>2
  <2>2. Above(j) \in SUBSET (1..n) /\ Above(i) \in SUBSET (1..n)
    OBVIOUS
  <2> QED
    BY <1>4, <2>1, <2>2 DEF StrictSubsetOrdering
<1> QED
  BY <1>5

(* What a root leaves on SS is older than it; what it takes is younger.    *)
LEMMA KeepFacts ==
  ASSUME TypeOK, top.node \in Node
  PROVE  /\ Len(SS) \in Nat /\ DOMAIN SS = 1..Len(SS) /\ Keep \in 0..Len(SS)
         /\ Keep # 0 => D[SS[Keep]] <= D[top.node]
         /\ \A i \in Keep + 1..Len(SS) : D[top.node] < D[SS[i]]
         /\ SubSeq(SS, 1, Keep) \in Seq(Node) /\ Len(SubSeq(SS, 1, Keep)) = Keep
         /\ DOMAIN SubSeq(SS, 1, Keep) = 1..Keep
         /\ \A i \in 1..Keep : SubSeq(SS, 1, Keep)[i] = SS[i]
         /\ {SubSeq(SS, 1, Keep)[i] : i \in DOMAIN SubSeq(SS, 1, Keep)} \union Taken = Waiting
<1>1. SS \in Seq(Node) /\ Len(SS) \in Nat /\ DOMAIN SS = 1..Len(SS)
  BY LenProperties DEF TypeOK
<1>2. \A i \in 1..Len(SS) : SS[i] \in Node
  BY <1>1, ElementOfSeq
<1>3. Older \in SUBSET (1..Len(SS))
  BY <1>1 DEF Older
<1>4. Keep \in 0..Len(SS) /\ (Keep # 0 => Keep \in Older) /\ \A j \in Older : j <= Keep
  <2>1. CASE Older = {}
    BY <1>1, <2>1 DEF Keep
  <2>2. CASE Older # {}
    <3>1. \E i \in Older : \A j \in Older : j <= i
      BY <1>1, <1>3, <2>2, LargestOfSome
    <3>2. Keep \in Older /\ \A j \in Older : j <= Keep
      BY <2>2, <3>1 DEF Keep
    <3> QED
      BY <1>1, <1>3, <3>2
  <2> QED
    BY <2>1, <2>2
<1>5. Keep # 0 => D[SS[Keep]] <= D[top.node]
  BY <1>4 DEF Older
<1>6. \A i \in Keep + 1..Len(SS) : D[top.node] < D[SS[i]]
  <2> TAKE i \in Keep + 1..Len(SS)
  <2>1. i \in DOMAIN SS /\ i \notin Older
    BY <1>1, <1>4
  <2>2. D[SS[i]] \in Nat /\ D[top.node] \in Nat
    BY <1>1, <1>2, <2>1 DEF TypeOK
  <2> QED
    BY <2>1, <2>2 DEF Older
<1>7. /\ SubSeq(SS, 1, Keep) \in Seq(Node) /\ Len(SubSeq(SS, 1, Keep)) = Keep
      /\ \A i \in 1..Keep : SubSeq(SS, 1, Keep)[i] = SS[i]
  BY <1>1, <1>4, SubSeqProperties, 1 \in 1..Len(SS) + 1
<1>8. DOMAIN SubSeq(SS, 1, Keep) = 1..Keep
  BY <1>7, LenProperties
<1>9. {SubSeq(SS, 1, Keep)[i] : i \in 1..Keep} = {SS[i] : i \in 1..Keep}
  BY <1>7
<1>10. {SS[i] : i \in 1..Keep} \union Taken = Waiting
  BY <1>1, <1>4 DEF Taken, Waiting
<1> QED
  BY <1>1, <1>4, <1>5, <1>6, <1>7, <1>8, <1>9, <1>10

(* The loop over SS at the end of visit(), in one piece.                   *)
LEMMA CloseEffect ==
  ASSUME CloseComponent
  PROVE  /\ frames # <<>> /\ top.child = None /\ top.left = {} /\ rep[top.node] = top.node
         /\ SS' = SubSeq(SS, 1, Keep) /\ inSCC' = inSCC \union {top.node} \union Taken
         /\ SetReps(Taken, top.node) /\ T' = Append(T, top.node) /\ frames' = Below
         /\ UNCHANGED <<graph, pc, I, D, visited, left>>
  BY DEF CloseComponent, Older, Keep, Taken

(* The calls that are left when the last one returns.                      *)
LEMMA BelowNamed ==
  ASSUME TInv, frames # <<>>
  PROVE  /\ Below \in Seq(Frame) /\ pc # "done"
         /\ top.node \in visited /\ top.child \in visited \union {None}
         /\ \A i \in DOMAIN Below :
              /\ Below[i].node \in visited /\ Below[i].child \in visited \union {None}
              /\ Below[i].left \subseteq graph.nodes
<1>1. frames \in Seq(Frame)
  BY DEF TInv, TypeOK, Frame
<1>2. /\ Len(frames) \in Nat \ {0} /\ DOMAIN frames = 1..Len(frames)
      /\ top = frames[Len(frames)] /\ Below \in Seq(Frame)
      /\ DOMAIN Below = 1..Len(frames) - 1
      /\ \A i \in 1..Len(frames) - 1 : Below[i] = frames[i]
  BY <1>1, BelowFacts
<1>3. \A i \in DOMAIN frames :
        /\ frames[i].node \in visited /\ frames[i].child \in visited \union {None}
        /\ frames[i].left \subseteq graph.nodes
  BY DEF TInv, Named
<1>4. Len(frames) \in DOMAIN frames /\ \A i \in DOMAIN Below : i \in DOMAIN frames
  BY <1>2
<1> QED
  BY <1>2, <1>3, <1>4 DEF TInv, Named

(* visit() returns for a node that is not a root.                          *)
LEMMA NotRootTyped == TInv /\ NotRoot => TInv'
<1> SUFFICES ASSUME TInv, NotRoot PROVE TInv'
  OBVIOUS
<1>1. /\ frames # <<>> /\ SS' = Append(SS, top.node) /\ frames' = Below
      /\ UNCHANGED <<graph, pc, I, D, info, T, left>>
  BY DEF NotRoot
<1>2. /\ Below \in Seq(Frame) /\ pc # "done" /\ top.node \in visited /\ top.node \in Node
      /\ \A i \in DOMAIN Below :
           /\ Below[i].node \in visited /\ Below[i].child \in visited \union {None}
           /\ Below[i].left \subseteq graph.nodes
  BY <1>1, BelowNamed DEF TInv, TypeOK
<1> DEFINE v == top.node
           b == Below
<1> HIDE DEF v, b
<1>3. /\ SS' \in Seq(Node) /\ DOMAIN SS' = 1..Len(SS) + 1 /\ DOMAIN SS = 1..Len(SS)
      /\ Len(SS) \in Nat /\ SS'[Len(SS) + 1] = v
      /\ \A i \in 1..Len(SS) : SS'[i] = SS[i]
  BY <1>1, <1>2, AppendFacts DEF TInv, TypeOK, v
<1>4. Waiting' \subseteq Waiting \union {v}
  BY <1>3 DEF Waiting
<1>5. TypeOK'
  BY <1>1, <1>2, <1>3 DEF TInv, TypeOK, Frame, info
<1>6. Named'
  BY <1>1, <1>2, <1>4 DEF TInv, Named, info, v
<1> QED
  BY <1>5, <1>6 DEF TInv

(* visit() returns for a root.                                             *)
LEMMA CloseTyped == TInv /\ CloseComponent => TInv'
<1> SUFFICES ASSUME TInv, CloseComponent PROVE TInv'
  OBVIOUS
<1> DEFINE v == top.node
<1>1. /\ frames # <<>> /\ SS' = SubSeq(SS, 1, Keep) /\ inSCC' = inSCC \union {v} \union Taken
      /\ SetReps(Taken, v) /\ T' = Append(T, v) /\ frames' = Below
      /\ UNCHANGED <<graph, pc, I, D, visited, left>>
  BY CloseEffect
<1>2. /\ Below \in Seq(Frame) /\ pc # "done" /\ v \in visited
      /\ \A i \in DOMAIN Below :
           /\ Below[i].node \in visited /\ Below[i].child \in visited \union {None}
           /\ Below[i].left \subseteq graph.nodes
  BY <1>1, BelowNamed
<1>3. v \in Node /\ v \in graph.nodes
  BY <1>2 DEF TInv, TypeOK
<1>4. /\ SS' \in Seq(Node) /\ Waiting' \union Taken = Waiting
  BY <1>1, <1>3, KeepFacts DEF TInv, Waiting
<1>5. T' \in Seq(Node)
  BY <1>1, <1>3, AppendFacts DEF TInv, TypeOK
<1> HIDE DEF v
<1>6. Taken \subseteq visited /\ Taken \subseteq Node /\ Waiting' \subseteq visited
  BY <1>4 DEF TInv, Named, TypeOK
<1>7. /\ rep' \in [Node -> Node \union {None}] /\ subNodes' \in [Node -> SUBSET Node]
      /\ repNodes' \subseteq graph.nodes
      /\ \A n \in visited : rep'[n] \in visited
  BY <1>1, <1>2, <1>3, <1>6 DEF TInv, TypeOK, Named, SetReps
<1>8. inSCC' \subseteq visited
  BY <1>1, <1>2, <1>6 DEF TInv, TypeOK
<1>9. TypeOK'
  BY <1>1, <1>2, <1>4, <1>5, <1>7, <1>8 DEF TInv, TypeOK, Frame
<1>10. Named'
  BY <1>1, <1>2, <1>6, <1>7 DEF TInv, Named
<1> QED
  BY <1>9, <1>10 DEF TInv

(* Every step keeps the types.                                             *)
LEMMA NextTyped == TInv /\ [Next]_vars => TInv'
<1> SUFFICES ASSUME TInv, [Next]_vars PROVE TInv'
  OBVIOUS
<1>1. CASE Finish
  BY <1>1 DEF Finish, info, TInv, TypeOK, Named, Waiting
<1>2. CASE UNCHANGED vars
  BY <1>2 DEF vars, info, TInv, TypeOK, Named, Waiting
<1> QED
  BY <1>1, <1>2, FindTyped, NextRootTyped, NextChildTyped, ReturnTyped, NotRootTyped,
     CloseTyped DEF Next, Step

(* The detector keeps its types on every sequence of graphs: no candidate  *)
(* root and no entry of a stack is ever a node that was not visited        *)
(* (GNodeSCCInfo, rep(), subNodes()).                                      *)
THEOREM TypeCorrect == Spec => []TypeOK
<1>1. Init => TInv
  BY InitTyped
<1>2. TInv /\ [Next]_vars => TInv'
  BY NextTyped
<1>3. TInv => TypeOK
  BY DEF TInv
<1> QED
  BY <1>1, <1>2, <1>3, PTL DEF Spec
-----------------------------------------------------------------------------
(* The inductive invariant.  At(i) is the node of the i-th call of visit() *)
(* that has not returned; Open is what is visited and not decided.         *)
At(i) == frames[i].node

Control ==
  /\ graph.nodes \subseteq left \union visited
  /\ pc = "done" => left = {}

Fresh ==
  /\ \A n \in Node \ visited : subNodes[n] = {} /\ n \notin repNodes
  /\ \A m, n \in visited : D[m] = D[n] => m = n

(* The calls that have not returned are a path of the search, oldest       *)
(* first; what is open is on the path or waits for its root.               *)
OnThePath ==
  /\ \A i \in DOMAIN frames :
       /\ frames[i].left \subseteq Children(At(i))
       /\ frames[i].child # None => frames[i].child \in Children(At(i))
       /\ i < Len(frames) => frames[i].child = At(i + 1)
  /\ \A i, j \in DOMAIN frames : i < j => D[At(i)] < D[At(j)]
  /\ \A i \in DOMAIN frames : At(i) \in Open /\ At(i) \notin Waiting
  /\ Waiting \subseteq Open /\ Open \subseteq OnPath \union Waiting

(* What waits and is younger than a call on the path lies on top of what   *)
(* is older.                                                               *)
Stacked ==
  \A k \in DOMAIN frames : \A i, j \in DOMAIN SS :
    i < j /\ D[At(k)] < D[SS[i]] => D[At(k)] < D[SS[j]]

(* A candidate root is open, not younger, and reached.                     *)
Candidates ==
  /\ \A n \in Open : rep[n] \in Open /\ D[rep[n]] <= D[n] /\ Reaches(n, rep[n])
  /\ \A n \in Waiting : rep[n] # n

(* The path reaches all that is open and younger; what waits reaches an    *)
(* older node of the path.                                                 *)
Reached == \A i \in DOMAIN frames : \A n \in Open : D[At(i)] <= D[n] => Reaches(At(i), n)
Returning == \A n \in Waiting : \E i \in DOMAIN frames :
               D[At(i)] < D[n] /\ Reaches(n, At(i))

(* A child that has been looked at is decided, or not older than the       *)
(* candidate of its parent.                                                *)
Known(n, c) == c \in inSCC \/ (c \in Open /\ D[rep[n]] <= D[c])
Edges ==
  /\ \A n \in Waiting : \A c \in Children(n) : Known(n, c)
  /\ \A i \in DOMAIN frames : \A c \in Children(At(i)) :
       c \in frames[i].left \/ c = frames[i].child \/ Known(At(i), c)

(* The candidate of what waits has been passed on to the path, up to the   *)
(* call that has just returned.                                            *)
Passed ==
  \A i \in DOMAIN frames : \A n \in Waiting : D[At(i)] < D[n] =>
    \/ D[rep[At(i)]] <= D[rep[n]]
    \/ i < Len(frames) /\ D[At(i + 1)] < D[n]
    \/ i = Len(frames) /\ frames[i].child \in Waiting /\ D[rep[frames[i].child]] <= D[rep[n]]

(* Sub nodes of an open node are lent: they are younger, and their         *)
(* candidate is not.                                                       *)
Lent ==
  /\ \A r \in Open : \A n \in subNodes[r] : n \in Open /\ D[r] <= D[n] /\ D[rep[n]] <= D[r]
  /\ \A n \in Open : rep[n] = n => n \in subNodes[n]
  /\ \A r \in Open : r \in repNodes => \E n \in Open : D[r] < D[n] /\ D[rep[n]] <= D[r]

Class(n) == {m \in inSCC : rep[m] = rep[n]}
Closed ==
  /\ \A n \in inSCC :
       /\ rep[n] \in Class(n) /\ subNodes[rep[n]] = Class(n)
       /\ \A m \in Class(n) \ {rep[n]} : subNodes[m] = {} /\ m \notin repNodes
       /\ rep[n] \in repNodes <=> Class(n) # {rep[n]}
       /\ Children(n) \subseteq inSCC
       /\ Reaches(n, rep[n]) /\ Reaches(rep[n], n)
  /\ \A m, n \in inSCC : Reaches(m, n) /\ Reaches(n, m) => rep[m] = rep[n]

Search == Control /\ Fresh /\ OnThePath /\ Stacked
Paths == Candidates /\ Reached /\ Returning
Roots == Edges /\ Passed /\ Lent
IInv == TInv /\ Search /\ Paths /\ Roots /\ Closed /\ Topological

-----------------------------------------------------------------------------
(* Reachability is read off closed sets: no induction on paths is needed.  *)
LEMMA ReachesFacts ==
  /\ \A n : Reaches(n, n)
  /\ \A m : \A n \in Children(m) : Reaches(m, n)
  /\ \A l, m, n : Reaches(l, m) /\ Reaches(m, n) => Reaches(l, n)
  /\ \A S \in SUBSET graph.nodes : \A m, n :
       m \in S /\ (\A v \in S : Children(v) \subseteq S) /\ Reaches(m, n) => n \in S
  BY DEF Reaches

(* Paths depend on the graph only.                                         *)
LEMMA GraphSame ==
  ASSUME UNCHANGED graph
  PROVE  /\ \A n : Children(n)' = Children(n)
         /\ \A m, n : Reaches(m, n)' <=> Reaches(m, n)
<1>1. \A n : Children(n)' = Children(n)
  BY DEF Children
<1> QED
  BY <1>1 DEF Reaches

(* What is decided stays as it is when a step leaves its representatives   *)
(* and sub nodes alone.                                                    *)
LEMMA DecidedStays ==
  ASSUME Closed, Topological, TypeOK, UNCHANGED <<graph, inSCC, T>>,
         \A n \in inSCC : rep'[n] = rep[n] /\ subNodes'[n] = subNodes[n],
         \A n \in inSCC : n \in repNodes' <=> n \in repNodes
  PROVE  Closed' /\ Topological'
<1>1. \A n \in inSCC : Class(n)' = Class(n)
  BY DEF Class
<1>2. \A n \in inSCC : rep[n] \in inSCC /\ Children(n) \subseteq inSCC
  BY DEF Closed, Class
<1>3. Closed'
  <2>1. \A n \in inSCC :
          /\ rep'[n] \in Class(n) /\ subNodes'[rep'[n]] = Class(n)
          /\ \A m \in Class(n) \ {rep'[n]} : subNodes'[m] = {} /\ m \notin repNodes'
          /\ rep'[n] \in repNodes' <=> Class(n) # {rep'[n]}
    <3> TAKE n \in inSCC
    <3>1. rep'[n] = rep[n] /\ rep[n] \in inSCC /\ Class(n) \subseteq inSCC
      BY <1>2 DEF Class
    <3>2. /\ rep[n] \in Class(n) /\ subNodes[rep[n]] = Class(n)
          /\ \A m \in Class(n) \ {rep[n]} : subNodes[m] = {} /\ m \notin repNodes
          /\ rep[n] \in repNodes <=> Class(n) # {rep[n]}
      BY DEF Closed
    <3> QED
      BY <3>1, <3>2
  <2>2. ASSUME NEW n \in inSCC
        PROVE  (Children(n) \subseteq inSCC /\ Reaches(n, rep[n]) /\ Reaches(rep[n], n))'
    BY GraphSame DEF Closed
  <2>3. \A m, n \in inSCC : Reaches(m, n)' /\ Reaches(n, m)' => rep'[m] = rep'[n]
    BY GraphSame DEF Closed
  <2> QED
    BY <1>1, <2>1, <2>2, <2>3 DEF Closed
<1>4. Topological'
  <2>1. {rep'[n] : n \in inSCC} = {rep[n] : n \in inSCC}
    OBVIOUS
  <2>2. \A e \in graph.edges : e[1] \in inSCC => e[2] \in inSCC
    BY <1>2 DEF Children
  <2> QED
    BY <2>1, <2>2 DEF Topological
<1> QED
  BY <1>3, <1>4
-----------------------------------------------------------------------------
(* What the types say, in the form the steps below use.                    *)
LEMMA Basics ==
  ASSUME TInv
  PROVE  /\ None \notin Node /\ I \in Nat /\ inSCC \subseteq visited
         /\ D \in [Node -> 0..I] /\ rep \in [Node -> Node \union {None}]
         /\ subNodes \in [Node -> SUBSET Node]
         /\ \A n \in visited : /\ n \in Node /\ n \in graph.nodes /\ rep[n] \in visited
                               /\ D[n] \in Nat /\ D[n] <= I /\ n # None
         /\ Len(frames) \in Nat /\ DOMAIN frames = 1..Len(frames)
         /\ \A i \in 1..Len(frames) : /\ frames[i] \in Frame /\ At(i) \in visited
                                      /\ frames[i].child \in visited \union {None}
         /\ Len(SS) \in Nat /\ DOMAIN SS = 1..Len(SS) /\ \A i \in 1..Len(SS) : SS[i] \in Waiting
         /\ Waiting \subseteq visited
<1>1. /\ frames \in Seq(Frame) /\ Len(frames) \in Nat /\ DOMAIN frames = 1..Len(frames)
      /\ \A i \in 1..Len(frames) : frames[i] \in Frame
  BY LenProperties, ElementOfSeq DEF TInv, TypeOK, Frame
<1>2. Len(SS) \in Nat /\ DOMAIN SS = 1..Len(SS) /\ \A i \in 1..Len(SS) : SS[i] \in Waiting
  BY LenProperties DEF TInv, TypeOK, Waiting
<1>3. D \in [Node -> 0..I] /\ I \in Nat
  BY DEF TInv, TypeOK
<1>4. \A n \in visited : n \in Node /\ n \in graph.nodes /\ rep[n] \in visited /\ n # None
  BY NoneAssumption DEF TInv, TypeOK, Named
<1>5. \A n \in visited : D[n] \in Nat /\ D[n] <= I
  BY <1>3, <1>4
<1>6. \A i \in 1..Len(frames) : At(i) \in visited /\ frames[i].child \in visited \union {None}
  BY <1>1 DEF TInv, Named, At
<1> QED
  BY <1>1, <1>2, <1>3, <1>4, <1>5, <1>6, NoneAssumption DEF TInv, TypeOK, Named

(* visit(v) is called: by find(), or by the call on top of the path.       *)
Visits(v) ==
  /\ v \in graph.nodes /\ v \notin visited /\ visited' = visited \union {v}
  /\ UNCHANGED <<graph, pc, inSCC, repNodes, SS, T>>
  /\ left' \subseteq left /\ left \ left' \subseteq {v}
  /\ I' = I + 1 /\ D' = [D EXCEPT ![v] = I + 1] /\ rep' = [rep EXCEPT ![v] = v]
  /\ subNodes' = [subNodes EXCEPT ![v] = @ \union {v}]
  /\ Len(frames') = Len(frames) + 1 /\ DOMAIN frames' = 1..Len(frames) + 1
  /\ frames'[Len(frames) + 1] = [node |-> v, left |-> Children(v), child |-> None]
  /\ \A i \in 1..Len(frames) - 1 : frames'[i] = frames[i]
  /\ Len(frames) > 0 =>
       LET f == frames[Len(frames)] IN
       /\ f.child = None /\ v \in f.left
       /\ frames'[Len(frames)] = [f EXCEPT !.left = @ \ {v}, !.child = v]
  /\ pc # "done"

(* The call on top has looked at a child that was visited before.          *)
LooksAt(w) ==
  /\ w \in visited /\ UNCHANGED <<graph, pc, I, D, info, SS, T, left>>
  /\ Len(frames) > 0 /\ Len(frames') = Len(frames) /\ DOMAIN frames' = 1..Len(frames)
  /\ \A i \in 1..Len(frames) - 1 : frames'[i] = frames[i]
  /\ LET f == frames[Len(frames)] IN
     /\ f.child = None /\ w \in f.left
     /\ frames'[Len(frames)] = [f EXCEPT !.left = @ \ {w}, !.child = w]

(* What a call of visit() does first.                                      *)
LEMMA VisitEffect ==
  ASSUME TInv, NEW v \in graph.nodes, NEW fs \in Seq(Frame), Visit(v, fs), v \notin visited
  PROVE  /\ visited' = visited \union {v} /\ repNodes' = repNodes
         /\ I' = I + 1 /\ D' = [D EXCEPT ![v] = I + 1] /\ rep' = [rep EXCEPT ![v] = v]
         /\ subNodes' = [subNodes EXCEPT ![v] = @ \union {v}]
         /\ Len(frames') = Len(fs) + 1 /\ DOMAIN frames' = 1..Len(fs) + 1
         /\ frames'[Len(fs) + 1] = [node |-> v, left |-> Children(v), child |-> None]
         /\ \A i \in 1..Len(fs) : frames'[i] = fs[i]
<1>1. v \in Node /\ subNodes \in [Node -> SUBSET Node]
  BY DEF TInv, TypeOK
<1>2. subNodes' = [subNodes EXCEPT ![v] = @ \union {v}]
  BY <1>1 DEF Visit, SetReps
<1>3. I' = I + 1 /\ D' = [D EXCEPT ![v] = I + 1]
  BY DEF Visit
<1>4. /\ visited' = visited \union {v} /\ repNodes' = repNodes
      /\ rep' = [rep EXCEPT ![v] = v]
      /\ Len(frames') = Len(fs) + 1 /\ DOMAIN frames' = 1..Len(fs) + 1
      /\ frames'[Len(fs) + 1] = [node |-> v, left |-> Children(v), child |-> None]
      /\ \A i \in 1..Len(fs) : frames'[i] = fs[i]
  BY VisitTyped
<1> QED
  BY <1>2, <1>3, <1>4

(* An iteration of find() calls visit() for an unvisited node.             *)
LEMMA RootVisits ==
  ASSUME TInv, NextRoot
  PROVE  \/ \E v : Visits(v)
         \/ \E n \in visited : left' = left \ {n}
                             /\ UNCHANGED <<graph, pc, I, D, info, SS, T, frames>>
<1>1. PICK n \in left :
        /\ left' = left \ {n}
        /\ IF n \in visited THEN UNCHANGED <<I, D, info, frames>>
           ELSE Visit(n, frames) /\ UNCHANGED inSCC
  BY DEF NextRoot
<1>2. frames = <<>> /\ UNCHANGED <<graph, pc, SS, T>> /\ pc = "find" /\ n \in graph.nodes
  BY <1>1 DEF NextRoot, TInv, TypeOK
<1>3. CASE n \in visited
  BY <1>1, <1>2, <1>3
<1>4. CASE n \notin visited
  <2>1. frames \in Seq(Frame) /\ Len(frames) = 0
    BY <1>2, EmptySeq DEF TInv, TypeOK, Frame
  <2>2. Visit(n, frames) /\ inSCC' = inSCC
    BY <1>1, <1>4
  <2>3. /\ visited' = visited \union {n} /\ repNodes' = repNodes
        /\ I' = I + 1 /\ D' = [D EXCEPT ![n] = I + 1] /\ rep' = [rep EXCEPT ![n] = n]
        /\ subNodes' = [subNodes EXCEPT ![n] = @ \union {n}]
        /\ Len(frames') = Len(frames) + 1 /\ DOMAIN frames' = 1..Len(frames) + 1
        /\ frames'[Len(frames) + 1] = [node |-> n, left |-> Children(n), child |-> None]
        /\ \A i \in 1..Len(frames) : frames'[i] = frames[i]
    BY <1>2, <1>4, <2>1, <2>2, VisitEffect
  <2>4. Visits(n)
    BY <1>1, <1>2, <1>4, <2>1, <2>2, <2>3 DEF Visits
  <2> QED
    BY <2>4
<1> QED
  BY <1>3, <1>4

(* visit() calls itself for an unvisited child.                            *)
LEMMA ChildVisits ==
  ASSUME TInv, NextChild
  PROVE  \E w : Visits(w) \/ LooksAt(w)
<1> DEFINE fs(w) == Append(Below, [top EXCEPT !.left = @ \ {w}, !.child = w])
<1>1. PICK w \in top.left :
        IF w \in visited THEN frames' = fs(w) /\ UNCHANGED <<I, D, info>>
        ELSE Visit(w, fs(w)) /\ UNCHANGED inSCC
  BY DEF NextChild
<1>2. /\ frames # <<>> /\ UNCHANGED <<graph, pc, SS, T, left>> /\ top.child = None
      /\ frames \in Seq(Frame)
  BY DEF NextChild, TInv, TypeOK, Frame
<1>3. /\ Len(frames) \in Nat \ {0} /\ DOMAIN frames = 1..Len(frames)
      /\ top = frames[Len(frames)] /\ top \in Frame
  BY <1>2, BelowFacts
<1>4. top.left \subseteq graph.nodes /\ pc # "done"
  BY <1>2, <1>3, Len(frames) \in DOMAIN frames DEF TInv, Named
<1>5. w \in graph.nodes /\ w \in Node
  BY <1>4 DEF TInv, TypeOK
<1>6. [top EXCEPT !.left = @ \ {w}, !.child = w] \in Frame
  BY <1>3, <1>5 DEF Frame
<1>7. /\ fs(w) \in Seq(Frame) /\ Len(fs(w)) = Len(frames) /\ DOMAIN fs(w) = DOMAIN frames
      /\ fs(w)[Len(frames)] = [top EXCEPT !.left = @ \ {w}, !.child = w]
      /\ \A i \in 1..Len(frames) - 1 : fs(w)[i] = frames[i]
  BY <1>2, <1>6, ReplaceTop
<1> HIDE DEF fs
<1>8. CASE w \in visited
  <2>1. frames' = fs(w) /\ UNCHANGED <<I, D, info>>
    BY <1>1, <1>8
  <2>2. LooksAt(w)
    BY <1>2, <1>3, <1>7, <1>8, <2>1 DEF LooksAt
  <2> QED
    BY <2>2
<1>9. CASE w \notin visited
  <2>1. Visit(w, fs(w)) /\ inSCC' = inSCC
    BY <1>1, <1>9
  <2>2. /\ visited' = visited \union {w} /\ repNodes' = repNodes
        /\ I' = I + 1 /\ D' = [D EXCEPT ![w] = I + 1] /\ rep' = [rep EXCEPT ![w] = w]
        /\ subNodes' = [subNodes EXCEPT ![w] = @ \union {w}]
        /\ Len(frames') = Len(frames) + 1 /\ DOMAIN frames' = 1..Len(frames) + 1
        /\ frames'[Len(frames) + 1] = [node |-> w, left |-> Children(w), child |-> None]
        /\ \A i \in 1..Len(frames) : frames'[i] = fs(w)[i]
    BY <1>5, <1>7, <1>9, <2>1, VisitEffect
  <2>3. /\ \A i \in 1..Len(frames) - 1 : frames'[i] = frames[i]
        /\ frames'[Len(frames)] = [top EXCEPT !.left = @ \ {w}, !.child = w]
    BY <1>3, <1>7, <2>2
  <2>4. Visits(w)
    BY <1>2, <1>3, <1>4, <1>5, <1>9, <2>1, <2>2, <2>3 DEF Visits
  <2> QED
    BY <2>4
<1> QED
  BY <1>8, <1>9

-----------------------------------------------------------------------------
(* A call of visit() begins.                                               *)
LEMMA VisitFacts ==
  ASSUME IInv, NEW v, Visits(v)
  PROVE  /\ v \in Node /\ v \notin visited /\ visited' = visited \union {v} /\ inSCC' = inSCC
         /\ Open' = Open \union {v} /\ v \notin Open /\ Waiting' = Waiting /\ Waiting \subseteq Open
         /\ \A n \in visited : /\ n # v /\ D'[n] = D[n] /\ rep'[n] = rep[n]
                               /\ subNodes'[n] = subNodes[n] /\ D[n] < D'[v]
                               /\ D[n] \in Nat /\ rep[n] \in visited
         /\ D'[v] \in Nat /\ rep'[v] = v /\ subNodes'[v] = {v} /\ v \notin repNodes
         /\ Len(frames) \in Nat /\ DOMAIN frames = 1..Len(frames)
         /\ Len(frames') = Len(frames) + 1 /\ DOMAIN frames' = 1..Len(frames) + 1
         /\ frames'[Len(frames) + 1].node = v
         /\ \A i \in 1..Len(frames) : frames'[i].node = At(i) /\ At(i) \in Open
         /\ \A i \in 1..Len(frames) - 1 : frames'[i] = frames[i]
<1> USE DEF At
<1>1. /\ v \in Node /\ v \notin visited /\ visited' = visited \union {v} /\ inSCC' = inSCC
      /\ v \notin inSCC
  BY Basics DEF IInv, Visits, TInv, TypeOK
<1>2. Open' = Open \union {v} /\ v \notin Open /\ Waiting' = Waiting /\ Waiting \subseteq Open
  BY <1>1, WaitingSame DEF IInv, Search, OnThePath, Open, Visits
<1>3. \A n \in visited : /\ n # v /\ D'[n] = D[n] /\ rep'[n] = rep[n]
                        /\ subNodes'[n] = subNodes[n] /\ D[n] < D'[v]
                        /\ D[n] \in Nat /\ rep[n] \in visited
  <2> TAKE n \in visited
  <2>1. n \in Node /\ n # v /\ D[n] \in Nat /\ D[n] <= I /\ I \in Nat /\ rep[n] \in visited
    BY <1>1, Basics DEF IInv
  <2>2. D'[n] = D[n] /\ rep'[n] = rep[n] /\ subNodes'[n] = subNodes[n] /\ D'[v] = I + 1
    BY <1>1, <2>1, Basics DEF IInv, Visits
  <2> QED
    BY <2>1, <2>2
<1>4. D'[v] \in Nat /\ rep'[v] = v /\ subNodes'[v] = {v} /\ v \notin repNodes
  <2>1. subNodes[v] = {} /\ v \notin repNodes
    BY <1>1 DEF IInv, Search, Fresh
  <2> QED
    BY <1>1, <2>1, Basics DEF IInv, Visits
<1>5. /\ Len(frames) \in Nat /\ DOMAIN frames = 1..Len(frames)
      /\ Len(frames') = Len(frames) + 1 /\ DOMAIN frames' = 1..Len(frames) + 1
      /\ frames'[Len(frames) + 1].node = v
      /\ \A i \in 1..Len(frames) - 1 : frames'[i] = frames[i]
  <2>1. frames'[Len(frames) + 1].node = v
    BY DEF Visits
  <2> QED
    BY <2>1, Basics DEF IInv, Visits, At
<1>6. \A i \in 1..Len(frames) : frames'[i].node = At(i) /\ At(i) \in Open
  <2> TAKE i \in 1..Len(frames)
  <2>1. At(i) \in Open
    BY <1>5 DEF IInv, Search, OnThePath
  <2>2. CASE i = Len(frames)
    <3>1. frames'[i] = [frames[i] EXCEPT !.left = @ \ {v}, !.child = v] /\ frames[i] \in Frame
      BY <1>5, <2>2, Basics DEF Visits, IInv
    <3> QED
      BY <2>1, <3>1 DEF At, Frame
  <2>3. CASE i \in 1..Len(frames) - 1
    BY <1>5, <2>1, <2>3
  <2>4. i = Len(frames) \/ i \in 1..Len(frames) - 1
    BY <1>5, Positions
  <2> QED
    BY <2>2, <2>3, <2>4
<1> QED
  BY <1>1, <1>2, <1>3, <1>4, <1>5, <1>6

(* The new node ends the path of calls.                                    *)
LEMMA VisitSearch ==
  ASSUME IInv, NEW v, Visits(v)
  PROVE  Search'
<1> USE DEF At
<1> DEFINE K == Len(frames)
<1>0. /\ v \in Node /\ v \notin visited /\ visited' = visited \union {v}
      /\ Open' = Open \union {v} /\ Waiting' = Waiting
      /\ \A n \in visited : n # v /\ D'[n] = D[n] /\ subNodes'[n] = subNodes[n] /\ D[n] < D'[v]
                            /\ D[n] \in Nat
      /\ D'[v] \in Nat
      /\ K \in Nat /\ DOMAIN frames = 1..K /\ Len(frames') = K + 1 /\ DOMAIN frames' = 1..K + 1
      /\ frames'[K + 1].node = v
      /\ \A i \in 1..K : frames'[i].node = At(i) /\ At(i) \in Open
      /\ \A i \in 1..K - 1 : frames'[i] = frames[i]
  BY VisitFacts
<1>1. Control'
  BY <1>0 DEF IInv, Search, Control, Visits
<1>2. Fresh'
  <2>1. \A n \in Node \ visited' : subNodes'[n] = {} /\ n \notin repNodes'
    BY <1>0, Basics DEF IInv, Search, Fresh, Visits
  <2>2. \A m, n \in visited' : D'[m] = D'[n] => m = n
    BY <1>0 DEF IInv, Search, Fresh
  <2> QED
    BY <2>1, <2>2 DEF Fresh
<1>3. OnThePath'
  <2>1. Waiting \subseteq Open /\ Open \subseteq OnPath \union Waiting /\ Open \subseteq visited
        /\ v \notin Waiting
    BY <1>0 DEF IInv, Search, OnThePath, Open
  <2>2. \A i \in 1..K + 1 :
          /\ frames'[i].left \subseteq Children(frames'[i].node)
          /\ frames'[i].child # None => frames'[i].child \in Children(frames'[i].node)
          /\ i < K + 1 => frames'[i].child = frames'[i + 1].node
    <3> TAKE i \in 1..K + 1
    <3>1. CASE i = K + 1
      BY <1>0, <3>1 DEF Visits
    <3>2. CASE i = K
      <4>1. /\ frames[K] \in Frame /\ v \in frames[K].left
            /\ frames'[K] = [frames[K] EXCEPT !.left = @ \ {v}, !.child = v]
        BY <1>0, <3>2, Basics DEF IInv, Visits
      <4>2. frames[K].left \subseteq Children(At(K))
        BY <1>0, <3>2 DEF IInv, Search, OnThePath
      <4>3. frames'[K].left \subseteq frames[K].left /\ frames'[K].child = v
        BY <4>1 DEF Frame
      <4> QED
        BY <1>0, <3>2, <4>1, <4>2, <4>3
    <3>3. CASE i \in 1..K - 1
      <4>1. frames'[i] = frames[i] /\ i \in 1..K /\ i + 1 \in 1..K
        BY <1>0, <3>3
      <4> QED
        BY <1>0, <3>3, <4>1 DEF IInv, Search, OnThePath
    <3> QED
      BY <1>0, <3>1, <3>2, <3>3
  <2>3. \A i, j \in 1..K + 1 : i < j => D'[frames'[i].node] < D'[frames'[j].node]
    <3> TAKE i, j \in 1..K + 1
    <3>1. CASE j = K + 1
      BY <1>0, <2>1, <3>1
    <3>2. CASE j \in 1..K
      BY <1>0, <2>1, <3>2 DEF IInv, Search, OnThePath
    <3> QED
      BY <1>0, <3>1, <3>2
  <2>4. \A i \in 1..K + 1 : frames'[i].node \in Open' /\ frames'[i].node \notin Waiting
    BY <1>0, <2>1 DEF IInv, Search, OnThePath
  <2>5. Open' \subseteq OnPath' \union Waiting
    <3>1. \A n \in OnPath : n \in OnPath'
      BY <1>0 DEF OnPath, At
    <3>2. v \in OnPath'
      BY <1>0 DEF OnPath, At
    <3> QED
      BY <1>0, <2>1, <3>1, <3>2
  <2>6. \A n : Children(n)' = Children(n)
    BY GraphSame DEF Visits
  <2> QED
    BY <1>0, <2>1, <2>2, <2>3, <2>4, <2>5, <2>6 DEF OnThePath
<1>4. Stacked'
  <2>1. SS' = SS /\ \A i \in DOMAIN SS : SS[i] \in Waiting /\ SS[i] \in visited
    BY Basics DEF IInv, Visits
  <2>2. \A k \in 1..K + 1 : \A i, j \in DOMAIN SS :
          i < j /\ D'[frames'[k].node] < D'[SS[i]] => D'[frames'[k].node] < D'[SS[j]]
    <3> TAKE k \in 1..K + 1
    <3> TAKE i, j \in DOMAIN SS
    <3>1. CASE k = K + 1
      BY <1>0, <2>1, <3>1
    <3>2. CASE k \in 1..K
      <4>1. At(k) \in visited
        BY <1>0, <3>2 DEF Open
      <4> QED
        BY <1>0, <2>1, <3>2, <4>1 DEF IInv, Search, Stacked
    <3> QED
      BY <1>0, <3>1, <3>2
  <2> QED
    BY <1>0, <2>1, <2>2 DEF Stacked
<1> QED
  BY <1>1, <1>2, <1>3, <1>4 DEF Search

(* The new node is its own candidate; all calls on the path reach it.      *)
LEMMA VisitPaths ==
  ASSUME IInv, NEW v, Visits(v)
  PROVE  Paths'
<1> USE DEF At
<1> DEFINE K == Len(frames)
<1>0. /\ v \notin visited /\ Open' = Open \union {v} /\ Waiting' = Waiting /\ Waiting \subseteq Open
      /\ Open \subseteq visited
      /\ \A n \in visited : n # v /\ D'[n] = D[n] /\ rep'[n] = rep[n] /\ D[n] < D'[v]
                            /\ D[n] \in Nat /\ rep[n] \in visited
      /\ D'[v] \in Nat /\ rep'[v] = v
      /\ K \in Nat /\ DOMAIN frames = 1..K /\ DOMAIN frames' = 1..K + 1
      /\ frames'[K + 1].node = v
      /\ \A i \in 1..K : frames'[i].node = At(i) /\ At(i) \in Open
  BY VisitFacts DEF Open
<1>1. \A m, n : Reaches(m, n)' <=> Reaches(m, n)
  BY GraphSame DEF Visits
<1>2. Candidates'
  <2>1. \A n \in Open' : rep'[n] \in Open' /\ D'[rep'[n]] <= D'[n] /\ Reaches(n, rep'[n])
    BY <1>0, ReachesFacts DEF IInv, Paths, Candidates
  <2>2. \A n \in Waiting : rep'[n] # n
    BY <1>0 DEF IInv, Paths, Candidates
  <2> QED
    BY <1>0, <1>1, <2>1, <2>2 DEF Candidates
<1>3. Reached'
  <2>1. \A i \in 1..K + 1 : \A n \in Open' : D'[frames'[i].node] <= D'[n] => Reaches(frames'[i].node, n)
    <3> TAKE i \in 1..K + 1
    <3> TAKE n \in Open'
    <3>1. CASE i \in 1..K /\ n \in Open
      BY <1>0, <3>1 DEF IInv, Paths, Reached
    <3>2. CASE i \in 1..K /\ n = v
      <4>1. D[At(i)] <= D[At(K)]
        BY <1>0, <3>2 DEF IInv, Search, OnThePath
      <4>2. Reaches(At(i), At(K))
        BY <1>0, <3>2, <4>1 DEF IInv, Paths, Reached
      <4>3. v \in Children(At(K))
        BY <1>0, <3>2 DEF IInv, Search, OnThePath, Visits
      <4> QED
        BY <1>0, <3>2, <4>2, <4>3, ReachesFacts
    <3>3. CASE i = K + 1
      BY <1>0, <3>3, ReachesFacts
    <3> QED
      BY <1>0, <3>1, <3>2, <3>3
  <2> QED
    BY <1>0, <1>1, <2>1 DEF Reached
<1>4. Returning'
  <2>1. \A n \in Waiting : \E i \in 1..K : D'[frames'[i].node] < D'[n] /\ Reaches(n, frames'[i].node)
    BY <1>0 DEF IInv, Paths, Returning
  <2> QED
    BY <1>0, <1>1, <2>1 DEF Returning
<1> QED
  BY <1>2, <1>3, <1>4 DEF Paths

(* The new node has looked at no child and lends nothing.                  *)
LEMMA VisitRoots ==
  ASSUME IInv, NEW v, Visits(v)
  PROVE  Roots'
<1> USE DEF At
<1> DEFINE K == Len(frames)
<1>0. /\ v \in Node /\ v \notin visited /\ Open' = Open \union {v} /\ Waiting' = Waiting
      /\ Waiting \subseteq Open /\ Open \subseteq visited /\ inSCC' = inSCC
      /\ \A n \in visited : n # v /\ D'[n] = D[n] /\ rep'[n] = rep[n] /\ D[n] < D'[v]
                            /\ subNodes'[n] = subNodes[n] /\ D[n] \in Nat /\ rep[n] \in visited
      /\ D'[v] \in Nat /\ rep'[v] = v /\ subNodes'[v] = {v} /\ v \notin repNodes
      /\ repNodes' = repNodes
      /\ K \in Nat /\ DOMAIN frames = 1..K /\ DOMAIN frames' = 1..K + 1 /\ Len(frames') = K + 1
      /\ frames'[K + 1].node = v /\ frames'[K + 1].left = Children(v)
      /\ \A i \in 1..K : frames'[i].node = At(i) /\ At(i) \in Open
      /\ \A i \in 1..K - 1 : frames'[i] = frames[i]
  <2>1. frames'[K + 1].left = Children(v) /\ repNodes' = repNodes /\ Open \subseteq visited
    BY DEF Open, Visits
  <2> QED
    BY <2>1, VisitFacts
<1>1. K > 0 => /\ frames[K].child = None /\ v \in frames[K].left /\ frames'[K].child = v
               /\ frames'[K].left = frames[K].left \ {v}
  <2> SUFFICES ASSUME K > 0 PROVE /\ frames[K].child = None /\ v \in frames[K].left
                                  /\ frames'[K].child = v
                                  /\ frames'[K].left = frames[K].left \ {v}
    OBVIOUS
  <2>1. frames[K] \in Frame
    BY <1>0, Basics DEF IInv
  <2> QED
    BY <2>1 DEF Visits, Frame
<1>2. \A n : Children(n)' = Children(n)
  BY GraphSame DEF Visits
<1>K. K = Len(frames) /\ K \in Nat
  BY <1>0
<1> HIDE DEF K
<1>3. Edges'
  <2>1. \A n \in Open : \A c : Known(n, c) => (c \in inSCC \/ (c \in Open' /\ D'[rep'[n]] <= D'[c]))
    BY <1>0 DEF Known
  <2>2. \A n \in Waiting : \A c \in Children(n) : Known(n, c)'
    BY <1>0, <2>1 DEF IInv, Roots, Edges, Known
  <2>3. \A i \in 1..K + 1 : \A c \in Children(frames'[i].node) :
          \/ c \in frames'[i].left \/ c = frames'[i].child
          \/ c \in inSCC \/ (c \in Open' /\ D'[rep'[frames'[i].node]] <= D'[c])
    <3> TAKE i \in 1..K + 1
    <3> TAKE c \in Children(frames'[i].node)
    <3>1. CASE i = K + 1
      BY <1>0, <3>1
    <3>2. CASE i = K /\ K > 0
      <4>1. c \in Children(At(K)) /\ c # None
        <5>1. c \in Children(At(K))
          BY <1>0, <3>2
        <5> QED
          BY <5>1, ChildrenAreNodes, NoneAssumption DEF IInv, TInv, TypeOK
      <4>2. c \in frames[K].left \/ Known(At(K), c)
        BY <1>0, <1>1, <3>2, <4>1 DEF IInv, Roots, Edges
      <4> QED
        BY <1>0, <1>1, <2>1, <3>2, <4>2
    <3>3. CASE i \in 1..K - 1
      BY <1>0, <2>1, <3>3 DEF IInv, Roots, Edges
    <3>4. i = K + 1 \/ (i = K /\ K > 0) \/ i \in 1..K - 1
      BY <1>K, Positions
    <3> QED
      BY <3>1, <3>2, <3>3, <3>4
  <2> QED
    BY <1>0, <1>2, <2>2, <2>3 DEF Edges, Known
<1>4. Passed'
  <2>1. \A i \in 1..K + 1 : \A n \in Waiting : D'[frames'[i].node] < D'[n] =>
          \/ D'[rep'[frames'[i].node]] <= D'[rep'[n]]
          \/ i < K + 1 /\ D'[frames'[i + 1].node] < D'[n]
    <3> TAKE i \in 1..K + 1
    <3> TAKE n \in Waiting
    <3>1. CASE i = K + 1
      BY <1>0, <3>1
    <3>2. CASE i = K /\ K > 0
      <4>1. None \notin Waiting
        BY <1>0, Basics DEF IInv
      <4>2. D[At(K)] < D[n] => D[rep[At(K)]] <= D[rep[n]]
        BY <1>0, <1>1, <1>K, <3>2, <4>1 DEF IInv, Roots, Passed
      <4>3. K \in 1..K /\ n \in visited /\ At(K) \in visited
        BY <1>0, <3>2
      <4>4. frames'[i].node = At(K)
        BY <1>0, <3>2, <4>3
      <4>5. /\ D'[At(K)] = D[At(K)] /\ D'[n] = D[n] /\ rep'[At(K)] = rep[At(K)] /\ rep'[n] = rep[n]
            /\ D'[rep[At(K)]] = D[rep[At(K)]] /\ D'[rep[n]] = D[rep[n]]
        BY <1>0, <4>3
      <4> QED
        BY <4>2, <4>4, <4>5
    <3>3. CASE i \in 1..K - 1
      <4>1. i \in 1..K /\ i + 1 \in 1..K /\ i # K /\ i < K
        BY <1>K, <3>3, Positions
      <4>2. D[At(i)] < D[n] => D[rep[At(i)]] <= D[rep[n]] \/ D[At(i + 1)] < D[n]
        BY <1>0, <1>K, <4>1 DEF IInv, Roots, Passed
      <4>3. n \in visited /\ At(i) \in visited /\ At(i + 1) \in visited
        BY <1>0, <4>1
      <4>4. frames'[i].node = At(i) /\ frames'[i + 1].node = At(i + 1) /\ i < K + 1
        BY <1>0, <4>1
      <4>5. /\ D'[At(i)] = D[At(i)] /\ D'[n] = D[n] /\ rep'[At(i)] = rep[At(i)] /\ rep'[n] = rep[n]
            /\ D'[rep[At(i)]] = D[rep[At(i)]] /\ D'[rep[n]] = D[rep[n]]
            /\ D'[At(i + 1)] = D[At(i + 1)]
        BY <1>0, <4>3
      <4> QED
        BY <4>2, <4>4, <4>5
    <3>4. i = K + 1 \/ (i = K /\ K > 0) \/ i \in 1..K - 1
      BY <1>K, Positions
    <3> QED
      BY <3>1, <3>2, <3>3, <3>4
  <2> QED
    BY <1>0, <1>K, <2>1 DEF Passed
<1>5. Lent'
  <2>1. \A r \in Open' : \A n \in subNodes'[r] : n \in Open' /\ D'[r] <= D'[n] /\ D'[rep'[n]] <= D'[r]
    BY <1>0 DEF IInv, Roots, Lent
  <2>2. \A n \in Open' : rep'[n] = n => n \in subNodes'[n]
    BY <1>0 DEF IInv, Roots, Lent
  <2>3. \A r \in Open' : r \in repNodes => \E n \in Open' : D'[r] < D'[n] /\ D'[rep'[n]] <= D'[r]
    BY <1>0 DEF IInv, Roots, Lent
  <2> QED
    BY <1>0, <2>1, <2>2, <2>3 DEF Lent
<1> QED
  BY <1>3, <1>4, <1>5 DEF Roots

(* A call of visit() keeps the invariant.                                  *)
LEMMA VisitStep ==
  ASSUME IInv, NEW v, Visits(v), TInv'
  PROVE  IInv'
<1>1. /\ inSCC \subseteq visited
      /\ \A n \in visited : rep'[n] = rep[n] /\ subNodes'[n] = subNodes[n]
  BY VisitFacts, Basics DEF IInv
<1>2. Closed' /\ Topological'
  BY <1>1, DecidedStays DEF IInv, TInv, Visits
<1> QED
  BY <1>2, VisitSearch, VisitPaths, VisitRoots DEF IInv

-----------------------------------------------------------------------------
(* A call looks at a child that was visited before, or its child returns:  *)
(* the path stays.                                                         *)
StaysOnPath ==
  /\ UNCHANGED <<graph, pc, I, D, visited, inSCC, SS, T, left>>
  /\ Len(frames) > 0 /\ Len(frames') = Len(frames) /\ DOMAIN frames' = 1..Len(frames)
  /\ \A i \in 1..Len(frames) - 1 : frames'[i] = frames[i]
  /\ \A i \in 1..Len(frames) : frames'[i].node = At(i)
  /\ LET f == frames[Len(frames)] f1 == frames'[Len(frames)] IN
     /\ f1.left \subseteq f.left
     /\ f1.child # None => f1.child \in Children(At(Len(frames)))

(* A step that changes candidates and the top call only: the search.       *)
LEMMA StaysSearch ==
  ASSUME IInv, StaysOnPath, Fresh'
  PROVE  Search' /\ Open' = Open /\ Waiting' = Waiting
<1> USE DEF At
<1> DEFINE K == Len(frames)
<1>1. /\ K \in Nat /\ K > 0 /\ DOMAIN frames = 1..K /\ DOMAIN frames' = 1..K /\ Len(frames') = K
      /\ \A i \in 1..K - 1 : frames'[i] = frames[i]
      /\ \A i \in 1..K : frames'[i].node = At(i)
      /\ frames'[K].left \subseteq frames[K].left
      /\ frames'[K].child # None => frames'[K].child \in Children(At(K))
      /\ UNCHANGED <<graph, pc, I, D, visited, inSCC, SS, T, left>>
  BY Basics DEF IInv, StaysOnPath
<1>2. Open' = Open /\ Waiting' = Waiting
  BY <1>1, WaitingSame DEF Open
<1>3. OnPath' = OnPath
  BY <1>1 DEF OnPath
<1>4. \A n : Children(n)' = Children(n)
  BY <1>1, GraphSame
<1>5. K = Len(frames) /\ K \in Nat
  BY <1>1
<1> HIDE DEF K
<1>6. OnThePath'
  <2>1. \A i \in 1..K :
          /\ frames'[i].left \subseteq Children(At(i))
          /\ frames'[i].child # None => frames'[i].child \in Children(At(i))
          /\ i < K => frames'[i].child = At(i + 1)
    <3> TAKE i \in 1..K
    <3>1. CASE i = K
      BY <1>1, <1>5, <3>1 DEF IInv, Search, OnThePath
    <3>2. CASE i \in 1..K - 1
      BY <1>1, <1>5, <3>2 DEF IInv, Search, OnThePath
    <3>3. i = K \/ i \in 1..K - 1
      BY <1>5, Positions
    <3> QED
      BY <3>1, <3>2, <3>3
  <2>2. \A i \in 1..K : i < K => i + 1 \in 1..K
    BY <1>5
  <2>3. \A i \in 1..K : frames'[i].left \subseteq Children(frames'[i].node) /\
          (frames'[i].child # None => frames'[i].child \in Children(frames'[i].node)) /\
          (i < K => frames'[i].child = frames'[i + 1].node)
    BY <1>1, <2>1, <2>2
  <2>4. \A i, j \in 1..K : i < j => D[frames'[i].node] < D[frames'[j].node]
    BY <1>1, <1>5 DEF IInv, Search, OnThePath
  <2>5. \A i \in 1..K : frames'[i].node \in Open /\ frames'[i].node \notin Waiting
    BY <1>1, <1>5 DEF IInv, Search, OnThePath
  <2>6. Waiting \subseteq Open /\ Open \subseteq OnPath \union Waiting
    BY DEF IInv, Search, OnThePath
  <2> QED
    BY <1>1, <1>2, <1>3, <1>4, <2>3, <2>4, <2>5, <2>6 DEF OnThePath
<1>7. Control' /\ Stacked'
  BY <1>1 DEF IInv, Search, Control, Stacked
<1> QED
  BY <1>2, <1>6, <1>7 DEF Search

(* The same for what the path reaches.                                     *)
LEMMA StaysReached ==
  ASSUME IInv, StaysOnPath, Fresh'
  PROVE  Reached' /\ Returning'
<1> USE DEF At
<1>1. Open' = Open /\ Waiting' = Waiting
  BY StaysSearch
<1>2. \A m, n : Reaches(m, n)' <=> Reaches(m, n)
  BY GraphSame DEF StaysOnPath
<1>3. DOMAIN frames' = DOMAIN frames /\ D' = D /\ \A i \in DOMAIN frames : frames'[i].node = At(i)
  BY Basics DEF IInv, StaysOnPath
<1>4. Reached'
  BY <1>1, <1>2, <1>3 DEF IInv, Paths, Reached
<1>5. Returning'
  BY <1>1, <1>2, <1>3 DEF IInv, Paths, Returning
<1> QED
  BY <1>4, <1>5

(* Looking at a child that was visited before.                             *)
LEMMA LooksAtStep ==
  ASSUME IInv, NEW w, LooksAt(w), TInv'
  PROVE  IInv'
<1> USE DEF At
<1> DEFINE K == Len(frames)
<1>1. /\ K \in Nat /\ K > 0 /\ DOMAIN frames = 1..K /\ DOMAIN frames' = 1..K /\ Len(frames') = K
      /\ \A i \in 1..K - 1 : frames'[i] = frames[i]
      /\ UNCHANGED <<graph, pc, I, D, info, SS, T, left>>
      /\ frames[K] \in Frame /\ K = Len(frames)
  <2>1. K \in Nat /\ K > 0 /\ DOMAIN frames = 1..K
    BY Basics DEF IInv, LooksAt
  <2>2. frames[K] \in Frame
    BY <2>1, Basics DEF IInv
  <2> QED
    BY <2>1, <2>2 DEF LooksAt
<1>2. /\ frames[K].child = None /\ w \in frames[K].left /\ frames'[K].child = w
      /\ frames'[K].left = frames[K].left \ {w} /\ frames'[K].node = At(K)
  BY <1>1 DEF LooksAt, Frame
<1>3. w \in Children(At(K))
  BY <1>1, <1>2 DEF IInv, Search, OnThePath
<1>K. K \in Nat
  BY <1>1
<1> HIDE DEF K
<1>4. \A i \in 1..K : frames'[i].node = At(i)
  BY <1>1, <1>2, <1>K, Positions
<1>5. StaysOnPath
  BY <1>1, <1>2, <1>3, <1>4 DEF StaysOnPath, info
<1>6. Fresh'
  BY <1>1 DEF IInv, Search, Fresh, info
<1>7. Search' /\ Open' = Open /\ Waiting' = Waiting
  BY <1>5, <1>6, StaysSearch
<1>8. \A n : Children(n)' = Children(n)
  BY <1>1, GraphSame
<1>9. \A m, n : Reaches(m, n)' <=> Reaches(m, n)
  BY <1>1, GraphSame
<1>10. Paths'
  <2>1. Candidates'
    BY <1>1, <1>7, <1>9 DEF IInv, Paths, Candidates, info
  <2> QED
    BY <1>5, <1>6, <2>1, StaysReached DEF Paths
<1>11. Edges'
  <2>1. \A n, c : Known(n, c)' <=> Known(n, c)
    BY <1>1, <1>7 DEF Known, info
  <2>2. \A i \in 1..K : \A c \in Children(At(i)) :
          c \in frames'[i].left \/ c = frames'[i].child \/ Known(At(i), c)
    <3> TAKE i \in 1..K
    <3> TAKE c \in Children(At(i))
    <3>1. CASE i = K
      <4>1. c # None
        BY ChildrenAreNodes, NoneAssumption DEF IInv, TInv, TypeOK
      <4> QED
        BY <1>1, <1>2, <3>1, <4>1 DEF IInv, Roots, Edges
    <3>2. CASE i \in 1..K - 1
      BY <1>1, <3>2 DEF IInv, Roots, Edges
    <3>3. i = K \/ i \in 1..K - 1
      BY <1>K, Positions
    <3> QED
      BY <3>1, <3>2, <3>3
  <2>3. \A n \in Waiting : \A c \in Children(n) : Known(n, c)
    BY DEF IInv, Roots, Edges
  <2> QED
    BY <1>1, <1>4, <1>7, <1>8, <2>1, <2>2, <2>3 DEF Edges
<1>12. Passed'
  <2>1. \A i \in 1..K : \A n \in Waiting : D[At(i)] < D[n] =>
          D[rep[At(i)]] <= D[rep[n]] \/ (i < K /\ D[At(i + 1)] < D[n])
    <3> TAKE i \in 1..K
    <3> TAKE n \in Waiting
    <3>1. CASE i = K
      <4>1. None \notin Waiting
        BY Basics DEF IInv
      <4> QED
        BY <1>1, <1>2, <3>1, <4>1 DEF IInv, Roots, Passed
    <3>2. CASE i \in 1..K - 1
      <4>1. i # K
        BY <1>K, <3>2, Positions
      <4> QED
        BY <1>1, <4>1 DEF IInv, Roots, Passed
    <3>3. i = K \/ i \in 1..K - 1
      BY <1>K, Positions
    <3> QED
      BY <3>1, <3>2, <3>3
  <2>2. \A i \in 1..K : i < K => i + 1 \in 1..K
    BY <1>K
  <2>3. D' = D /\ rep' = rep
    BY <1>1 DEF info
  <2>4. \A i \in 1..K : \A n \in Waiting : D[frames'[i].node] < D[n] =>
          D[rep[frames'[i].node]] <= D[rep[n]] \/ (i < K /\ D[frames'[i + 1].node] < D[n])
    BY <1>4, <2>1, <2>2
  <2> QED
    BY <1>1, <1>7, <2>3, <2>4 DEF Passed
<1>13. Lent'
  BY <1>1, <1>7 DEF IInv, Roots, Lent, info
<1>14. Closed' /\ Topological'
  BY <1>1, DecidedStays DEF IInv, TInv, info
<1> QED
  BY <1>7, <1>10, <1>11, <1>12, <1>13, <1>14 DEF IInv, Roots

-----------------------------------------------------------------------------
(* A child returns.  r is the older of the two candidates.                 *)
LEMMA ReturnFacts ==
  ASSUME IInv, ReturnFromChild
  PROVE  LET v == top.node
             w == top.child
             r == IF D[rep[v]] < D[rep[w]] THEN rep[v] ELSE rep[w]
             K == Len(frames)
         IN
         /\ K \in Nat /\ K > 0 /\ DOMAIN frames = 1..K /\ v = At(K) /\ w = frames[K].child
         /\ v \in Open /\ v \notin Waiting /\ v \in Node /\ w \in visited /\ w \in Children(v)
         /\ \A i \in 1..K - 1 : frames'[i] = frames[i]
         /\ frames'[K].left = frames[K].left /\ frames'[K].child = None /\ frames'[K].node = v
         /\ Len(frames') = K /\ DOMAIN frames' = 1..K
         /\ UNCHANGED <<graph, pc, I, D, visited, inSCC, SS, T, left>>
         /\ \/ w \in inSCC /\ UNCHANGED <<rep, subNodes, repNodes>>
            \/ w \in Open /\ SetReps({v}, r)
<1> DEFINE v == top.node
           w == top.child
           r == IF D[rep[v]] < D[rep[w]] THEN rep[v] ELSE rep[w]
           K == Len(frames)
<1>1. /\ frames # <<>> /\ frames \in Seq(Frame) /\ w # None
      /\ frames' = Append(Below, [top EXCEPT !.child = None])
      /\ UNCHANGED <<graph, pc, I, D, visited, inSCC, SS, T, left>>
  BY DEF ReturnFromChild, IInv, TInv, TypeOK, Frame
<1>2. /\ K \in Nat \ {0} /\ DOMAIN frames = 1..K /\ top = frames[K] /\ top \in Frame
  BY <1>1, BelowFacts
<1>3. [top EXCEPT !.child = None] \in Frame
  BY <1>2 DEF Frame
<1>4. /\ Len(frames') = K /\ DOMAIN frames' = DOMAIN frames
      /\ frames'[K] = [top EXCEPT !.child = None]
      /\ \A i \in 1..K - 1 : frames'[i] = frames[i]
  BY <1>1, <1>3, ReplaceTop
<1>5. frames'[K].left = frames[K].left /\ frames'[K].child = None /\ frames'[K].node = v
  BY <1>2, <1>4 DEF Frame
<1>6. K \in 1..K
  BY <1>2
<1>7. v = At(K) /\ w = frames[K].child
  BY <1>2 DEF At
<1>8. v \in Open /\ v \notin Waiting /\ w \in Children(v)
  BY <1>1, <1>2, <1>6, <1>7 DEF IInv, Search, OnThePath
<1>9. v \in Node /\ w \in visited
  BY <1>1, <1>2, <1>6, <1>7, <1>8, Basics DEF IInv, Open
<1>10. \/ w \in inSCC /\ UNCHANGED <<rep, subNodes, repNodes>>
       \/ w \in Open /\ SetReps({v}, r)
  BY <1>9 DEF ReturnFromChild, Open
<1> HIDE DEF v, w, r, K
<1>11. /\ K \in Nat /\ K > 0 /\ DOMAIN frames = 1..K /\ v = At(K) /\ w = frames[K].child
       /\ v \in Open /\ v \notin Waiting /\ v \in Node /\ w \in visited /\ w \in Children(v)
       /\ \A i \in 1..K - 1 : frames'[i] = frames[i]
       /\ frames'[K].left = frames[K].left /\ frames'[K].child = None /\ frames'[K].node = v
       /\ Len(frames') = K /\ DOMAIN frames' = 1..K
       /\ UNCHANGED <<graph, pc, I, D, visited, inSCC, SS, T, left>>
       /\ \/ w \in inSCC /\ UNCHANGED <<rep, subNodes, repNodes>>
          \/ w \in Open /\ SetReps({v}, r)
  BY <1>1, <1>2, <1>4, <1>5, <1>7, <1>8, <1>9, <1>10
<1> QED
  BY <1>11 DEF v, w, r, K

(* What the new candidate changes.                                         *)
LEMMA CandidateFacts ==
  ASSUME IInv, NEW v \in Open, NEW w \in Open, w \in Children(v), v \notin Waiting,
         UNCHANGED <<graph, D, visited, inSCC>>,
         NEW r, r = (IF D[rep[v]] < D[rep[w]] THEN rep[v] ELSE rep[w]),
         SetReps({v}, r)
  PROVE  /\ r \in Open /\ D[r] <= D[rep[v]] /\ D[r] <= D[rep[w]] /\ D[r] <= D[v] /\ D[r] <= D[w]
         /\ Reaches(v, r) /\ rep'[v] = r /\ \A n \in visited : n # v => rep'[n] = rep[n]
         /\ \A n \in Open : D[rep'[n]] <= D[rep[n]]
         /\ Fresh' /\ Lent'
         /\ \A n \in inSCC : rep'[n] = rep[n] /\ subNodes'[n] = subNodes[n]
         /\ \A n \in inSCC : n \in repNodes' <=> n \in repNodes
<1>1. /\ v \in Node /\ w \in Node /\ Open' = Open /\ Open \subseteq visited
      /\ v \notin inSCC
  BY Basics DEF IInv, Open
<1>2. \A n \in Open : /\ n \in Node /\ rep[n] \in Open /\ D[rep[n]] <= D[n] /\ Reaches(n, rep[n])
                     /\ D[n] \in Nat /\ D[rep[n]] \in Nat
  BY <1>1, Basics DEF IInv, Paths, Candidates
<1>3. r \in Open /\ D[r] <= D[rep[v]] /\ D[r] <= D[rep[w]] /\ D[r] <= D[v] /\ D[r] <= D[w]
  BY <1>2
<1>4. Reaches(v, r)
  BY <1>2, ReachesFacts
<1>5. rep'[v] = r /\ \A n \in visited : n # v => rep'[n] = rep[n]
  BY <1>1, Basics DEF IInv, SetReps
<1>6. \A n \in Open : D[rep'[n]] <= D[rep[n]] /\ D[rep'[n]] \in Nat
  BY <1>1, <1>2, <1>3, <1>5
<1>7. \A n \in Node : subNodes'[n] = IF n = r THEN subNodes[n] \union {v}
                                    ELSE IF n = v THEN {} ELSE subNodes[n]
  BY DEF SetReps
<1>8. repNodes' = IF r = v THEN repNodes ELSE (repNodes \ {v}) \union {r}
  BY DEF SetReps
<1>9. Fresh'
  BY <1>1, <1>2, <1>3, <1>7, <1>8 DEF IInv, Search, Fresh
<1>10. Lent'
  <2>1. \A x \in Open : \A n \in subNodes'[x] : n \in Open /\ D[x] <= D[n] /\ D[rep'[n]] <= D[x]
    <3> TAKE x \in Open
    <3> TAKE n \in subNodes'[x]
    <3>1. CASE n \in subNodes[x]
      <4>1. n \in Open /\ D[x] <= D[n] /\ D[rep[n]] <= D[x]
        BY <3>1 DEF IInv, Roots, Lent
      <4> QED
        BY <1>2, <1>6, <4>1
    <3>2. CASE n \notin subNodes[x]
      <4>1. n = v /\ x = r
        BY <1>2, <1>7, <3>2
      <4> QED
        BY <1>2, <1>3, <1>5, <4>1
    <3> QED
      BY <3>1, <3>2
  <2>2. ASSUME NEW n \in Open, rep'[n] = n PROVE n \in subNodes'[n]
    <3>1. CASE n = v
      BY <1>1, <1>5, <1>7, <2>2, <3>1
    <3>2. CASE n # v
      <4>1. rep[n] = n /\ n \in Node
        BY <1>1, <1>2, <1>5, <2>2, <3>2
      <4>2. n \in subNodes[n]
        BY <4>1 DEF IInv, Roots, Lent
      <4> QED
        BY <1>7, <3>2, <4>1, <4>2
    <3> QED
      BY <3>1, <3>2
  <2>3. \A x \in Open : x \in repNodes' => \E n \in Open : D[x] < D[n] /\ D[rep'[n]] <= D[x]
    <3> SUFFICES ASSUME NEW x \in Open, x \in repNodes'
                 PROVE  \E n \in Open : D[x] < D[n] /\ D[rep'[n]] <= D[x]
      OBVIOUS
    <3>1. CASE x \in repNodes
      <4>1. PICK n \in Open : D[x] < D[n] /\ D[rep[n]] <= D[x]
        BY <3>1 DEF IInv, Roots, Lent
      <4> QED
        BY <1>2, <1>6, <4>1
    <3>2. CASE x \notin repNodes
      <4>1. x = r /\ r # v
        BY <1>8, <3>2
      <4>2. D[r] # D[v]
        BY <1>1, <1>3, <4>1 DEF IInv, Search, Fresh
      <4>3. D[r] < D[v]
        BY <1>2, <1>3, <4>2
      <4> QED
        BY <1>2, <1>3, <1>5, <4>1, <4>3
    <3> QED
      BY <3>1, <3>2
  <2> QED
    BY <1>1, <2>1, <2>2, <2>3 DEF Lent
<1>11. \A n \in inSCC : n \in Node /\ n \in visited /\ n # v /\ n # r
  BY <1>1, <1>3, Basics DEF IInv, Open
<1>12. \A n \in inSCC : rep'[n] = rep[n] /\ subNodes'[n] = subNodes[n]
  BY <1>5, <1>7, <1>11
<1>13. \A n \in inSCC : n \in repNodes' <=> n \in repNodes
  BY <1>8, <1>11
<1> QED
  BY <1>3, <1>4, <1>5, <1>6, <1>9, <1>10, <1>12, <1>13

(* The candidate of a callee is taken over while its component is open.    *)
LEMMA ReturnStep ==
  ASSUME IInv, ReturnFromChild, TInv'
  PROVE  IInv'
<1> USE DEF At
<1> DEFINE v == top.node
           w == top.child
           r == IF D[rep[v]] < D[rep[w]] THEN rep[v] ELSE rep[w]
           K == Len(frames)
<1>1. /\ K \in Nat /\ K > 0 /\ DOMAIN frames = 1..K /\ v = At(K) /\ w = frames[K].child
      /\ v \in Open /\ v \notin Waiting /\ v \in Node /\ w \in visited /\ w \in Children(v)
      /\ \A i \in 1..K - 1 : frames'[i] = frames[i]
      /\ frames'[K].left = frames[K].left /\ frames'[K].child = None /\ frames'[K].node = v
      /\ Len(frames') = K /\ DOMAIN frames' = 1..K
      /\ UNCHANGED <<graph, pc, I, D, visited, inSCC, SS, T, left>>
      /\ \/ w \in inSCC /\ UNCHANGED <<rep, subNodes, repNodes>>
         \/ w \in Open /\ SetReps({v}, r)
  BY ReturnFacts
<1>K. K \in Nat /\ K = Len(frames)
  BY <1>1
<1> HIDE DEF v, w, r, K
<1>2. \A i \in 1..K : frames'[i].node = At(i)
  BY <1>1, <1>K, Positions
<1>3. StaysOnPath
  BY <1>1, <1>K, <1>2 DEF StaysOnPath
<1>4. \A n \in Open : /\ n \in visited /\ rep[n] \in Open /\ D[rep[n]] <= D[n] /\ Reaches(n, rep[n])
                     /\ D[n] \in Nat /\ D[rep[n]] \in Nat
  BY Basics DEF IInv, Paths, Candidates, Open
(* In both cases the candidate of v is as old as it should be.             *)
<1>5. /\ \A n \in visited : n # v => rep'[n] = rep[n]
      /\ rep'[v] \in Open /\ D[rep'[v]] <= D[rep[v]] /\ Reaches(v, rep'[v])
      /\ w \in Open => D[rep'[v]] <= D[rep[w]]
      /\ Fresh' /\ Lent'
      /\ \A n \in inSCC : rep'[n] = rep[n] /\ subNodes'[n] = subNodes[n]
      /\ \A n \in inSCC : n \in repNodes' <=> n \in repNodes
  <2>1. CASE w \in inSCC /\ UNCHANGED <<rep, subNodes, repNodes>>
    <3>1. Open' = Open /\ w \notin Open
      BY <1>1, <2>1 DEF Open
    <3>2. Fresh' /\ Lent'
      BY <1>1, <2>1, <3>1 DEF IInv, Search, Fresh, Roots, Lent
    <3> QED
      BY <1>1, <1>4, <2>1, <3>1, <3>2
  <2>2. CASE w \in Open /\ SetReps({v}, r)
    <3>1. r = (IF D[rep[v]] < D[rep[w]] THEN rep[v] ELSE rep[w])
      BY DEF r
    <3> QED
      BY <1>1, <2>2, <3>1, CandidateFacts
  <2> QED
    BY <1>1, <2>1, <2>2
<1>6. Search' /\ Open' = Open /\ Waiting' = Waiting /\ Reached' /\ Returning'
  BY <1>3, <1>5, StaysSearch, StaysReached
<1>7. Waiting \subseteq Open /\ \A n \in Waiting : n # v /\ rep'[n] = rep[n]
  BY <1>1, <1>4, <1>5 DEF IInv, Search, OnThePath
<1>8. Candidates'
  <2>1. \A m, n : Reaches(m, n)' <=> Reaches(m, n)
    BY <1>1, GraphSame
  <2>2. \A n \in Open : rep'[n] \in Open /\ D[rep'[n]] <= D[n] /\ Reaches(n, rep'[n])
    BY <1>4, <1>5
  <2>3. \A n \in Waiting : rep'[n] # n
    BY <1>7 DEF IInv, Paths, Candidates
  <2> QED
    BY <1>1, <1>6, <2>1, <2>2, <2>3 DEF Candidates
<1>9. \A n \in Open : D[rep'[n]] <= D[rep[n]] /\ D[rep'[n]] \in Nat
  BY <1>4, <1>5
<1>10. Edges'
  <2>1. \A n : Children(n)' = Children(n)
    BY <1>1, GraphSame
  <2>2. \A n \in Open : \A c : Known(n, c) => c \in inSCC \/ (c \in Open /\ D[rep'[n]] <= D[c])
    BY <1>4, <1>9 DEF Known
  <2>3. \A n \in Waiting : \A c \in Children(n) : c \in inSCC \/ (c \in Open /\ D[rep'[n]] <= D[c])
    BY <1>7, <2>2 DEF IInv, Roots, Edges
  <2>4. w \in inSCC \/ (w \in Open /\ D[rep'[v]] <= D[w])
    BY <1>1, <1>4, <1>5, <1>9
  <2>5. \A i \in 1..K : \A c \in Children(At(i)) :
          \/ c \in frames'[i].left \/ c = frames'[i].child
          \/ c \in inSCC \/ (c \in Open /\ D[rep'[At(i)]] <= D[c])
    <3> TAKE i \in 1..K
    <3> TAKE c \in Children(At(i))
    <3>1. c \in frames[i].left \/ c = frames[i].child \/ Known(At(i), c)
      BY <1>1 DEF IInv, Roots, Edges
    <3>2. At(i) \in Open
      BY <1>1 DEF IInv, Search, OnThePath
    <3>3. CASE i = K
      BY <1>1, <2>2, <2>4, <3>1, <3>2, <3>3
    <3>4. CASE i \in 1..K - 1
      BY <1>1, <2>2, <3>1, <3>2, <3>4
    <3>5. i = K \/ i \in 1..K - 1
      BY <1>K, Positions
    <3> QED
      BY <3>3, <3>4, <3>5
  <2> QED
    BY <1>1, <1>2, <1>6, <2>1, <2>3, <2>5 DEF Edges, Known
<1>11. Passed'
  <2>1. \A i \in 1..K : \A n \in Waiting : D[At(i)] < D[n] =>
          D[rep'[At(i)]] <= D[rep[n]] \/ (i < K /\ D[At(i + 1)] < D[n])
    <3> SUFFICES ASSUME NEW i \in 1..K, NEW n \in Waiting, D[At(i)] < D[n]
                 PROVE  D[rep'[At(i)]] <= D[rep[n]] \/ (i < K /\ D[At(i + 1)] < D[n])
      OBVIOUS
    <3>1. \/ D[rep[At(i)]] <= D[rep[n]]
          \/ i < K /\ D[At(i + 1)] < D[n]
          \/ i = K /\ frames[i].child \in Waiting /\ D[rep[frames[i].child]] <= D[rep[n]]
      BY <1>1, <1>K DEF IInv, Roots, Passed
    <3>2. At(i) \in Open /\ n \in Open
      BY <1>1, <1>7 DEF IInv, Search, OnThePath
    <3>3. CASE D[rep[At(i)]] <= D[rep[n]]
      BY <1>4, <1>9, <3>2, <3>3
    <3>4. CASE i = K /\ frames[i].child \in Waiting /\ D[rep[frames[i].child]] <= D[rep[n]]
      <4>1. w \in Open /\ D[rep'[v]] <= D[rep[w]] /\ D[rep[w]] <= D[rep[n]] /\ At(i) = v
        BY <1>1, <1>5, <1>7, <3>4
      <4> QED
        BY <1>1, <1>4, <1>9, <3>2, <4>1
    <3> QED
      BY <3>1, <3>3, <3>4
  <2>2. \A i \in 1..K : i < K => i + 1 \in 1..K
    BY <1>K
  <2>3. \A i \in 1..K : \A n \in Waiting : D[frames'[i].node] < D[n] =>
          D[rep'[frames'[i].node]] <= D[rep'[n]] \/ (i < K /\ D[frames'[i + 1].node] < D[n])
    BY <1>2, <1>7, <2>1, <2>2
  <2> QED
    BY <1>1, <1>6, <2>3 DEF Passed
<1>12. Closed' /\ Topological'
  BY <1>1, <1>5, DecidedStays DEF IInv, TInv
<1> QED
  BY <1>5, <1>6, <1>8, <1>10, <1>11, <1>12 DEF IInv, Paths, Roots

-----------------------------------------------------------------------------
(* A call that has looked at all children returns.                         *)
LEMMA LeaveFacts ==
  ASSUME IInv, frames # <<>>, top.child = None, top.left = {}, frames' = Below
  PROVE  /\ Len(frames) \in Nat /\ Len(frames) > 0 /\ DOMAIN frames = 1..Len(frames)
         /\ top = frames[Len(frames)]
         /\ Len(frames') = Len(frames) - 1 /\ DOMAIN frames' = 1..Len(frames) - 1
         /\ \A i \in 1..Len(frames) - 1 : frames'[i] = frames[i] /\ D[At(i)] < D[top.node]
         /\ top.node \in Open /\ top.node \notin Waiting /\ top.node \in Node
         /\ Open \subseteq visited
         /\ \A n \in Waiting : D[top.node] < D[n] => D[rep[top.node]] <= D[rep[n]]
         /\ \A c \in Children(top.node) : Known(top.node, c)
         /\ \A n \in Open : /\ n \in visited /\ n \in Node /\ rep[n] \in Open /\ D[rep[n]] <= D[n]
                            /\ Reaches(n, rep[n]) /\ D[n] \in Nat /\ D[rep[n]] \in Nat
         /\ Waiting \subseteq Open
<1> USE DEF At
<1> DEFINE K == Len(frames)
<1>1. /\ K \in Nat /\ K > 0 /\ DOMAIN frames = 1..K /\ top = frames[K]
      /\ Len(frames') = K - 1 /\ DOMAIN frames' = 1..K - 1
      /\ \A i \in 1..K - 1 : frames'[i] = frames[i]
  <2>1. frames \in Seq(Frame)
    BY DEF IInv, TInv, TypeOK, Frame
  <2>2. /\ K \in Nat \ {0} /\ DOMAIN frames = 1..K /\ top = frames[K]
        /\ Len(Below) = K - 1 /\ DOMAIN Below = 1..K - 1
        /\ \A i \in 1..K - 1 : Below[i] = frames[i]
    BY <2>1, BelowFacts
  <2> QED
    BY <2>2
<1>2. K \in 1..K /\ \A i \in 1..K - 1 : i \in 1..K /\ i < K
  BY <1>1
<1>3. top.node \in Open /\ top.node \notin Waiting /\ Open \subseteq visited /\ Waiting \subseteq Open
  BY <1>1, <1>2 DEF IInv, Search, OnThePath, Open
<1>4. \A i \in 1..K - 1 : D[At(i)] < D[top.node]
  BY <1>1, <1>2 DEF IInv, Search, OnThePath
<1>5. \A n \in Open : /\ n \in visited /\ n \in Node /\ rep[n] \in Open /\ D[rep[n]] <= D[n]
                     /\ Reaches(n, rep[n]) /\ D[n] \in Nat /\ D[rep[n]] \in Nat
  BY Basics DEF IInv, Paths, Candidates, Open
<1>6. \A n \in Waiting : D[top.node] < D[n] => D[rep[top.node]] <= D[rep[n]]
  <2>1. None \notin Waiting
    BY Basics DEF IInv
  <2> QED
    BY <1>1, <1>2, <2>1 DEF IInv, Roots, Passed
<1>7. \A c \in Children(top.node) : Known(top.node, c)
  <2>1. None \notin Children(top.node)
    BY ChildrenAreNodes, NoneAssumption DEF IInv, TInv, TypeOK
  <2> QED
    BY <1>1, <1>2, <2>1 DEF IInv, Roots, Edges
<1> QED
  BY <1>1, <1>3, <1>4, <1>5, <1>6, <1>7

(* A node with an older candidate goes to SS and waits.                    *)
LEMMA NotRootStep ==
  ASSUME IInv, NotRoot, TInv'
  PROVE  IInv'
<1> USE DEF At
<1> DEFINE v == top.node
           K == Len(frames)
<1>1. /\ frames # <<>> /\ top.child = None /\ top.left = {} /\ rep[v] # v
      /\ SS' = Append(SS, v) /\ frames' = Below
      /\ UNCHANGED <<graph, pc, I, D, info, T, left>>
  BY DEF NotRoot
<1>2. /\ K \in Nat /\ K > 0 /\ DOMAIN frames = 1..K /\ v = At(K)
      /\ Len(frames') = K - 1 /\ DOMAIN frames' = 1..K - 1
      /\ \A i \in 1..K - 1 : frames'[i] = frames[i] /\ D[At(i)] < D[v]
      /\ v \in Open /\ v \notin Waiting /\ v \in Node
      /\ \A n \in Waiting : D[v] < D[n] => D[rep[v]] <= D[rep[n]]
      /\ \A c \in Children(v) : Known(v, c)
      /\ \A n \in Open : /\ n \in visited /\ n \in Node /\ rep[n] \in Open /\ D[rep[n]] <= D[n]
                         /\ Reaches(n, rep[n]) /\ D[n] \in Nat /\ D[rep[n]] \in Nat
      /\ Waiting \subseteq Open
  BY <1>1, LeaveFacts
<1>K. K \in Nat /\ K = Len(frames)
  BY <1>2
<1>3. \A i \in 1..K - 1 : i \in 1..K /\ i + 1 \in 1..K /\ i < K /\ i # K
  BY <1>K, Positions
<1> HIDE DEF v, K
<1>4. /\ DOMAIN SS' = 1..Len(SS) + 1 /\ DOMAIN SS = 1..Len(SS) /\ Len(SS) \in Nat
      /\ SS'[Len(SS) + 1] = v
      /\ \A i \in 1..Len(SS) : SS'[i] = SS[i]
  BY <1>1, <1>2, AppendFacts DEF IInv, TInv, TypeOK
<1>5. Waiting' = Waiting \union {v} /\ Open' = Open
  BY <1>1, <1>4 DEF Waiting, Open, info
<1>6. \A i \in 1..K - 1 : frames'[i].node = At(i) /\ At(i) # v /\ At(i) \in Open
  <2> TAKE i \in 1..K - 1
  <2>1. At(i) \in Open /\ frames'[i].node = At(i) /\ D[At(i)] < D[v]
    BY <1>2, <1>3 DEF IInv, Search, OnThePath
  <2>2. D[v] \in Nat
    BY <1>2
  <2> QED
    BY <2>1, <2>2
<1>7. Control' /\ Fresh'
  BY <1>1 DEF IInv, Search, Control, Fresh, info
<1>8. OnThePath'
  <2>1. \A n : Children(n)' = Children(n)
    BY <1>1, GraphSame
  <2>2. \A i \in 1..K - 1 :
          /\ frames'[i].left \subseteq Children(frames'[i].node)
          /\ frames'[i].child # None => frames'[i].child \in Children(frames'[i].node)
    BY <1>2, <1>3 DEF IInv, Search, OnThePath
  <2>3. \A i \in 1..K - 1 : i < K - 1 => frames'[i].child = frames'[i + 1].node
    <3> TAKE i \in 1..K - 1
    <3>1. i < K - 1 => i + 1 \in 1..K - 1
      BY <1>K
    <3>2. frames[i].child = At(i + 1)
      BY <1>2, <1>3, <1>K DEF IInv, Search, OnThePath
    <3> QED
      BY <1>2, <3>1, <3>2
  <2>4. \A i, j \in 1..K - 1 : i < j => D'[frames'[i].node] < D'[frames'[j].node]
    BY <1>1, <1>2, <1>3 DEF IInv, Search, OnThePath
  <2>5. \A i \in 1..K - 1 : frames'[i].node \in Open /\ frames'[i].node \notin Waiting'
    BY <1>2, <1>3, <1>5, <1>6 DEF IInv, Search, OnThePath
  <2>6. Waiting' \subseteq Open
    BY <1>2, <1>5
  <2>7. Open \subseteq OnPath' \union Waiting'
    <3>1. ASSUME NEW n \in OnPath PROVE n = v \/ n \in OnPath'
      <4>1. PICK i \in 1..K : n = At(i)
        BY <1>2 DEF OnPath
      <4>2. i = K \/ i \in 1..K - 1
        BY <1>K, Positions
      <4> QED
        BY <1>2, <4>1, <4>2 DEF OnPath
    <3> QED
      BY <1>5, <3>1 DEF IInv, Search, OnThePath
  <2> QED
    BY <1>2, <1>5, <2>1, <2>2, <2>3, <2>4, <2>5, <2>6, <2>7 DEF OnThePath
<1>9. Stacked'
  <2>1. \A i \in 1..Len(SS) : SS[i] \in Waiting
    BY Basics DEF IInv
  <2>2. ASSUME NEW k \in 1..K - 1, NEW i \in 1..Len(SS) + 1, NEW j \in 1..Len(SS) + 1,
               i < j, D[At(k)] < D[SS'[i]]
        PROVE  D[At(k)] < D[SS'[j]]
    <3>1. CASE j = Len(SS) + 1
      BY <1>2, <1>4, <3>1
    <3>2. CASE j \in 1..Len(SS)
      <4>1. i \in 1..Len(SS) /\ k \in 1..K
        BY <1>3, <1>4, <2>2, <3>2
      <4> QED
        BY <1>2, <1>4, <2>2, <3>2, <4>1 DEF IInv, Search, Stacked
    <3> QED
      BY <1>4, <3>1, <3>2
  <2> QED
    BY <1>1, <1>2, <1>4, <1>6, <2>2 DEF Stacked
<1>10. \A m, n : Reaches(m, n)' <=> Reaches(m, n)
  BY <1>1, GraphSame
<1>11. Candidates' /\ Reached'
  <2>1. Candidates'
    BY <1>1, <1>5, <1>10 DEF IInv, Paths, Candidates, info
  <2>2. \A i \in 1..K - 1 : \A n \in Open : D[At(i)] <= D[n] => Reaches(At(i), n)
    BY <1>2, <1>3 DEF IInv, Paths, Reached
  <2>3. Reached'
    BY <1>1, <1>2, <1>5, <1>6, <1>10, <2>2 DEF Reached
  <2> QED
    BY <2>1, <2>3
<1>12. Returning'
  (* What the candidate of v reaches is on the path below v.               *)
  <2>1. \E i \in 1..K - 1 : D[At(i)] < D[v] /\ Reaches(v, At(i))
    <3>1. rep[v] \in Open /\ D[rep[v]] < D[v] /\ Reaches(v, rep[v])
      <4>1. D[rep[v]] # D[v]
        BY <1>1, <1>2 DEF IInv, Search, Fresh
      <4> QED
        BY <1>2, <4>1
    <3>2. CASE rep[v] \in Waiting
      <4>1. PICK i \in 1..K : D[At(i)] < D[rep[v]] /\ Reaches(rep[v], At(i))
        BY <1>2, <3>2 DEF IInv, Paths, Returning
      <4>2. At(i) \in Open
        BY <1>2 DEF IInv, Search, OnThePath
      <4>3. D[At(i)] < D[v]
        BY <1>2, <3>1, <4>1, <4>2
      <4>4. i # K
        BY <1>2, <4>3
      <4>5. i \in 1..K - 1
        BY <1>K, <4>4, Positions
      <4> QED
        BY <3>1, <4>1, <4>3, <4>5, ReachesFacts
    <3>3. CASE rep[v] \notin Waiting
      <4>1. PICK i \in 1..K : rep[v] = At(i)
        BY <1>2, <3>1, <3>3 DEF IInv, Search, OnThePath, OnPath
      <4>2. i \in 1..K - 1
        BY <1>2, <1>K, <3>1, <4>1, Positions
      <4> QED
        BY <3>1, <4>1, <4>2
    <3> QED
      BY <3>2, <3>3
  <2>2. ASSUME NEW n \in Waiting
        PROVE  \E i \in 1..K - 1 : D[At(i)] < D[n] /\ Reaches(n, At(i))
    <3>1. PICK i \in 1..K : D[At(i)] < D[n] /\ Reaches(n, At(i))
      BY <1>2 DEF IInv, Paths, Returning
    <3>2. CASE i = K
      <4>1. PICK j \in 1..K - 1 : D[At(j)] < D[v] /\ Reaches(v, At(j))
        BY <2>1
      <4>2. n \in Open /\ At(j) \in Open /\ At(i) = v
        BY <1>2, <1>6, <3>2
      <4>3. D[At(j)] < D[n]
        BY <1>2, <3>1, <4>1, <4>2
      <4>4. Reaches(n, At(j))
        BY <3>1, <4>1, <4>2, ReachesFacts
      <4> QED
        BY <4>3, <4>4
    <3>3. i = K \/ i \in 1..K - 1
      BY <1>K, Positions
    <3> QED
      BY <3>1, <3>2, <3>3
  <2>3. \A n \in Waiting \union {v} : \E i \in 1..K - 1 : D[At(i)] < D[n] /\ Reaches(n, At(i))
    BY <2>1, <2>2
  <2>4. D' = D
    BY <1>1 DEF info
  <2>5. \A n \in Waiting' : \E i \in DOMAIN frames' :
          D'[frames'[i].node] < D'[n] /\ Reaches(n, frames'[i].node)
    BY <1>2, <1>5, <1>6, <2>3, <2>4
  <2> QED
    BY <1>10, <2>5 DEF Returning
<1>13. Edges'
  <2>1. \A n : Children(n)' = Children(n)
    BY <1>1, GraphSame
  <2>2. \A n, c : Known(n, c)' <=> Known(n, c)
    BY <1>1, <1>5 DEF Known, info
  <2>3. \A n \in Waiting' : \A c \in Children(n) : Known(n, c)
    BY <1>2, <1>5 DEF IInv, Roots, Edges
  <2>4. \A i \in 1..K - 1 : \A c \in Children(At(i)) :
          c \in frames'[i].left \/ c = frames'[i].child \/ Known(At(i), c)
    BY <1>2, <1>3 DEF IInv, Roots, Edges
  <2> QED
    BY <1>2, <1>6, <2>1, <2>2, <2>3, <2>4 DEF Edges
<1>14. Passed'
  <2>1. ASSUME NEW i \in 1..K - 1, NEW n \in Waiting', D[At(i)] < D[n]
        PROVE  \/ D[rep[At(i)]] <= D[rep[n]]
               \/ i < K - 1 /\ D[At(i + 1)] < D[n]
               \/ i = K - 1 /\ frames[i].child \in Waiting' /\ D[rep[frames[i].child]] <= D[rep[n]]
    <3>1. i < K - 1 \/ (i = K - 1 /\ i + 1 = K)
      BY <1>K
    <3>2. i \in 1..K /\ i + 1 \in 1..K /\ i < K /\ i # K
      BY <1>3
    <3>3. frames[i].child = At(i + 1)
      BY <1>2, <1>K, <3>2 DEF IInv, Search, OnThePath
    <3>4. At(i + 1) \in Open /\ D[rep[v]] \in Nat
      BY <1>2, <3>2 DEF IInv, Search, OnThePath
    <3>5. CASE n = v
      <4>1. CASE i < K - 1
        <5>1. i + 1 \in 1..K - 1
          BY <1>K, <4>1
        <5> QED
          BY <1>2, <3>5, <4>1, <5>1
      <4>2. CASE i = K - 1 /\ i + 1 = K
        BY <1>2, <1>5, <3>3, <3>4, <3>5, <4>2
      <4> QED
        BY <3>1, <4>1, <4>2
    <3>6. CASE n \in Waiting
      <4>1. D[rep[At(i)]] <= D[rep[n]] \/ D[At(i + 1)] < D[n]
        BY <1>2, <1>K, <2>1, <3>2, <3>6 DEF IInv, Roots, Passed
      <4>2. CASE i = K - 1 /\ i + 1 = K /\ D[At(i + 1)] < D[n]
        <5>1. At(i + 1) = v
          BY <1>2, <4>2
        <5>2. D[rep[v]] <= D[rep[n]]
          BY <1>2, <3>6, <4>2, <5>1
        <5> QED
          BY <1>5, <3>3, <4>2, <5>1, <5>2
      <4> QED
        BY <3>1, <4>1, <4>2
    <3> QED
      BY <1>5, <3>5, <3>6
  <2>2. \A i \in 1..K - 1 : i < K - 1 => i + 1 \in 1..K - 1
    BY <1>K
  <2>3. D' = D /\ rep' = rep
    BY <1>1 DEF info
  <2>4. \A i \in 1..K - 1 : \A n \in Waiting' : D[frames'[i].node] < D[n] =>
          \/ D[rep[frames'[i].node]] <= D[rep[n]]
          \/ i < K - 1 /\ D[frames'[i + 1].node] < D[n]
          \/ i = K - 1 /\ frames'[i].child \in Waiting' /\ D[rep[frames'[i].child]] <= D[rep[n]]
    BY <1>2, <1>6, <2>1, <2>2
  <2> QED
    BY <1>2, <2>3, <2>4 DEF Passed
<1>15. Lent'
  BY <1>1, <1>5 DEF IInv, Roots, Lent, info
<1>16. Closed' /\ Topological'
  BY <1>1, DecidedStays DEF IInv, TInv, info
<1> QED
  BY <1>7, <1>8, <1>9, <1>11, <1>12, <1>13, <1>14, <1>15, <1>16 DEF IInv, Search, Paths, Roots

-----------------------------------------------------------------------------
(* The root takes what is open and not older than itself: a component.     *)
Root == top.node
Members == {Root} \union Taken

(* A component that closes: its root and all that is open and younger.     *)
LEMMA CloseFacts ==
  ASSUME IInv, CloseComponent
  PROVE  /\ Root \in Open /\ Root \in Node /\ Root \notin Taken /\ rep[Root] = Root /\ D[Root] \in Nat
         /\ Members \subseteq Open /\ Members \subseteq graph.nodes /\ Members \subseteq Node
         /\ Open' = Open \ Members /\ inSCC' = inSCC \union Members /\ Waiting' = Waiting \ Members
         /\ \A n \in Taken : n \in Waiting /\ D[Root] < D[n]
         /\ \A n \in Open : n \in Members <=> D[Root] <= D[n]
         /\ \A n \in Open : D[n] \in Nat /\ n \in Node
         /\ \A n \in Members : rep'[n] = Root
         /\ \A n \in visited : n \notin Members => rep'[n] = rep[n]
<1> USE DEF At
<1> DEFINE v == Root
           C == Members
           K == Len(frames)
<1>1. /\ frames # <<>> /\ top.child = None /\ top.left = {} /\ rep[v] = v
      /\ SS' = SubSeq(SS, 1, Keep) /\ inSCC' = inSCC \union {v} \union Taken
      /\ SetReps(Taken, v) /\ frames' = Below
      /\ UNCHANGED <<graph, D, visited>>
  BY CloseEffect DEF Root
<1>2. /\ K \in Nat /\ K > 0 /\ DOMAIN frames = 1..K /\ v = At(K)
      /\ v \in Open /\ v \notin Waiting /\ v \in Node
      /\ \A i \in 1..K - 1 : D[At(i)] < D[v]
      /\ \A n \in Open : n \in Node /\ n \in visited /\ D[n] \in Nat
      /\ Waiting \subseteq Open
  BY <1>1, LeaveFacts DEF Root
<1>3. /\ Len(SS) \in Nat /\ DOMAIN SS = 1..Len(SS) /\ Keep \in 0..Len(SS)
      /\ Keep # 0 => D[SS[Keep]] <= D[v]
      /\ \A i \in Keep + 1..Len(SS) : D[v] < D[SS[i]]
      /\ DOMAIN SS' = 1..Keep /\ \A i \in 1..Keep : SS'[i] = SS[i]
      /\ Waiting' \union Taken = Waiting
  BY <1>1, <1>2, KeepFacts DEF IInv, TInv, Waiting, Root
<1>0. C = {v} \union Taken
  BY DEF Members
<1> HIDE DEF v, C
<1>4. \A n \in Taken : n \in Waiting /\ D[v] < D[n]
  BY <1>3 DEF Taken
<1>5. \A n \in Waiting' : n \in Waiting /\ D[n] < D[v]
  <2>1. ASSUME NEW i \in 1..Keep PROVE SS[i] \in Waiting /\ D[SS[i]] < D[v]
    <3>1. Keep \in Nat /\ Keep # 0 /\ i \in DOMAIN SS /\ Keep \in DOMAIN SS /\ K \in DOMAIN frames
      BY <1>2, <1>3
    <3>2. SS[i] \in Waiting /\ SS[Keep] \in Waiting
      BY <3>1 DEF Waiting
    <3>3. D[SS[i]] \in Nat /\ D[SS[Keep]] \in Nat /\ D[v] \in Nat
      BY <1>2, <3>2
    <3>4. i = Keep \/ i < Keep
      BY <3>1
    <3>5. ~ (D[v] < D[SS[i]])
      <4>1. CASE i = Keep
        BY <1>3, <3>1, <3>3, <4>1
      <4>2. CASE i < Keep
        <5>1. D[v] < D[SS[i]] => D[v] < D[SS[Keep]]
          BY <1>2, <3>1, <4>2 DEF IInv, Search, Stacked
        <5> QED
          BY <1>3, <3>1, <3>3, <5>1
      <4> QED
        BY <3>4, <4>1, <4>2
    <3>6. D[SS[i]] # D[v]
      BY <1>2, <3>2 DEF IInv, Search, Fresh
    <3> QED
      BY <3>2, <3>3, <3>5, <3>6
  <2> QED
    BY <1>3, <2>1 DEF Waiting
<1>6. v \notin Taken /\ C \subseteq Open /\ C \subseteq graph.nodes /\ C \subseteq Node
  <2>1. C \subseteq Open /\ v \notin Taken
    BY <1>0, <1>2, <1>4
  <2> QED
    BY <2>1, Basics DEF IInv, Open
<1>7. Open' = Open \ C /\ inSCC' = inSCC \union C
  BY <1>0, <1>1 DEF Open
<1>8. Waiting' = Waiting \ C
  <2>1. \A n \in Waiting' : n \notin C
    BY <1>0, <1>2, <1>4, <1>5
  <2> QED
    BY <1>0, <1>2, <1>3, <2>1
<1>9. \A n \in Open : n \in C <=> D[v] <= D[n]
  <2> TAKE n \in Open
  <2>1. CASE n \in Waiting
    BY <1>0, <1>2, <1>3, <1>4, <1>5, <2>1
  <2>2. CASE n \notin Waiting
    <3>1. PICK i \in 1..K : n = At(i)
      BY <1>2, <2>2 DEF IInv, Search, OnThePath, OnPath
    <3>2. i = K \/ i \in 1..K - 1
      BY <1>2, Positions
    <3>3. CASE i = K
      BY <1>0, <1>2, <3>1, <3>3
    <3>4. CASE i \in 1..K - 1
      BY <1>0, <1>2, <1>4, <2>2, <3>1, <3>4
    <3> QED
      BY <3>2, <3>3, <3>4
  <2> QED
    BY <2>1, <2>2
<1>10. /\ \A n \in C : rep'[n] = v
       /\ \A n \in visited : n \notin C => rep'[n] = rep[n]
  BY <1>0, <1>1, <1>2, <1>6, Basics DEF IInv, SetReps
<1> QED
  BY <1>1, <1>2, <1>4, <1>6, <1>7, <1>8, <1>9, <1>10 DEF v, C

(* The search goes on below the root.                                      *)
LEMMA CloseSearch ==
  ASSUME IInv, CloseComponent
  PROVE  Search'
<1> USE DEF At
<1> DEFINE v == Root
           C == Members
           K == Len(frames)
<1>1. /\ frames # <<>> /\ top.child = None /\ top.left = {}
      /\ SS' = SubSeq(SS, 1, Keep) /\ SetReps(Taken, v) /\ frames' = Below
      /\ UNCHANGED <<graph, pc, D, visited, left>>
  BY CloseEffect DEF Root
<1>2. /\ K \in Nat /\ K > 0 /\ DOMAIN frames = 1..K /\ v = At(K)
      /\ Len(frames') = K - 1 /\ DOMAIN frames' = 1..K - 1
      /\ \A i \in 1..K - 1 : frames'[i] = frames[i] /\ D[At(i)] < D[v]
      /\ Waiting \subseteq Open
  BY <1>1, LeaveFacts DEF Root
<1>3. /\ v \in Open /\ v \in Node /\ C \subseteq Open /\ Open' = Open \ C /\ Waiting' = Waiting \ C
      /\ \A n \in Open : n \in C <=> D[v] <= D[n]
      /\ \A n \in Open : D[n] \in Nat /\ n \in Node
  BY CloseFacts
<1>K. K \in Nat /\ K = Len(frames)
  BY <1>2
<1>4. \A i \in 1..K - 1 : i \in 1..K /\ i + 1 \in 1..K /\ i < K /\ i # K
  BY <1>K, Positions
<1>5. /\ DOMAIN SS = 1..Len(SS) /\ Len(SS) \in Nat /\ Keep \in 0..Len(SS)
      /\ DOMAIN SS' = 1..Keep /\ \A i \in 1..Keep : SS'[i] = SS[i]
  BY <1>1, <1>3, KeepFacts DEF IInv, TInv, Root
<1>6. \A n \in Node : n # v => (subNodes'[n] = subNodes[n] \/ subNodes'[n] = {})
  BY <1>1 DEF SetReps
<1>7. \A n \in repNodes' : n \in repNodes \/ n = v
  BY <1>1 DEF SetReps
<1> HIDE DEF v, C, K
<1>8. \A i \in 1..K - 1 : frames'[i].node = At(i) /\ At(i) \in Open /\ At(i) \notin C
  <2> TAKE i \in 1..K - 1
  <2>1. At(i) \in Open /\ frames'[i].node = At(i) /\ D[At(i)] < D[v]
    BY <1>2, <1>4 DEF IInv, Search, OnThePath
  <2>2. D[At(i)] \in Nat /\ D[v] \in Nat
    BY <1>3, <2>1
  <2> QED
    BY <1>3, <2>1, <2>2
<1>9. Control'
  BY <1>1 DEF IInv, Search, Control
<1>10. Fresh'
  <2>1. v \in visited
    BY <1>3 DEF Open
  <2>2. \A n \in Node \ visited : subNodes'[n] = {} /\ n \notin repNodes'
    BY <1>6, <1>7, <2>1 DEF IInv, Search, Fresh
  <2> QED
    BY <1>1, <2>2 DEF IInv, Search, Fresh
<1>11. OnThePath'
  <2>1. \A n : Children(n)' = Children(n)
    BY <1>1, GraphSame
  <2>2. \A i \in 1..K - 1 :
          /\ frames'[i].left \subseteq Children(frames'[i].node)
          /\ frames'[i].child # None => frames'[i].child \in Children(frames'[i].node)
    BY <1>2, <1>4 DEF IInv, Search, OnThePath
  <2>3. \A i \in 1..K - 1 : i < K - 1 => frames'[i].child = frames'[i + 1].node
    <3> TAKE i \in 1..K - 1
    <3>1. i < K - 1 => i + 1 \in 1..K - 1
      BY <1>K
    <3>2. frames[i].child = At(i + 1)
      BY <1>2, <1>4, <1>K DEF IInv, Search, OnThePath
    <3> QED
      BY <1>2, <3>1, <3>2
  <2>4. \A i, j \in 1..K - 1 : i < j => D'[frames'[i].node] < D'[frames'[j].node]
    BY <1>1, <1>2, <1>4 DEF IInv, Search, OnThePath
  <2>5. \A i \in 1..K - 1 : frames'[i].node \in Open' /\ frames'[i].node \notin Waiting'
    BY <1>2, <1>3, <1>4, <1>8 DEF IInv, Search, OnThePath
  <2>6. Waiting' \subseteq Open'
    BY <1>2, <1>3
  <2>7. Open' \subseteq OnPath' \union Waiting'
    <3>1. ASSUME NEW n \in OnPath PROVE n = v \/ n \in OnPath'
      <4>1. PICK i \in 1..K : n = At(i)
        BY <1>2 DEF OnPath
      <4>2. i = K \/ i \in 1..K - 1
        BY <1>K, Positions
      <4> QED
        BY <1>2, <4>1, <4>2 DEF OnPath
    <3>2. v \in C
      BY DEF C, v, Members
    <3> QED
      BY <1>3, <3>1, <3>2 DEF IInv, Search, OnThePath
  <2> QED
    BY <1>2, <2>1, <2>2, <2>3, <2>4, <2>5, <2>6, <2>7 DEF OnThePath
<1>12. Stacked'
  <2>1. ASSUME NEW k \in 1..K - 1, NEW i \in 1..Keep, NEW j \in 1..Keep,
               i < j, D[At(k)] < D[SS[i]]
        PROVE  D[At(k)] < D[SS[j]]
    <3>1. i \in 1..Len(SS) /\ j \in 1..Len(SS) /\ k \in 1..K
      BY <1>4, <1>5
    <3> QED
      BY <1>2, <1>5, <2>1, <3>1 DEF IInv, Search, Stacked
  <2>2. \A k \in DOMAIN frames' : \A i, j \in DOMAIN SS' :
          i < j /\ D[frames'[k].node] < D[SS'[i]] => D[frames'[k].node] < D[SS'[j]]
    BY <1>2, <1>5, <1>8, <2>1
  <2> QED
    BY <1>1, <2>2 DEF Stacked
<1> QED
  BY <1>9, <1>10, <1>11, <1>12 DEF Search

(* What stays open has lost no candidate and no path.                      *)
LEMMA ClosePaths ==
  ASSUME IInv, CloseComponent
  PROVE  Paths'
<1> USE DEF At
<1> DEFINE v == Root
           C == Members
           K == Len(frames)
<1>1. /\ frames # <<>> /\ top.child = None /\ top.left = {} /\ frames' = Below
      /\ UNCHANGED <<graph, D, visited>>
  BY CloseEffect DEF Root
<1>2. /\ K \in Nat /\ K > 0 /\ DOMAIN frames = 1..K /\ v = At(K)
      /\ DOMAIN frames' = 1..K - 1
      /\ \A i \in 1..K - 1 : frames'[i] = frames[i]
      /\ Waiting \subseteq Open
      /\ \A n \in Open : /\ n \in visited /\ rep[n] \in Open /\ D[rep[n]] <= D[n]
                         /\ Reaches(n, rep[n]) /\ D[rep[n]] \in Nat
  BY <1>1, LeaveFacts DEF Root
<1>3. /\ v \in Open /\ Open' = Open \ C /\ Waiting' = Waiting \ C
      /\ \A n \in Open : n \in C <=> D[v] <= D[n]
      /\ \A n \in Open : D[n] \in Nat
      /\ \A n \in visited : n \notin C => rep'[n] = rep[n]
  BY CloseFacts
<1>K. K \in Nat /\ K = Len(frames)
  BY <1>2
<1>4. \A i \in 1..K - 1 : i \in 1..K
  BY <1>K, Positions
<1> HIDE DEF v, C, K
<1>5. \A m, n : Reaches(m, n)' <=> Reaches(m, n)
  BY <1>1, GraphSame
<1>6. Candidates'
  <2>1. \A n \in Open \ C : rep'[n] \in Open \ C /\ D[rep'[n]] <= D[n] /\ Reaches(n, rep'[n])
    BY <1>2, <1>3
  <2>2. \A n \in Waiting \ C : rep'[n] # n
    BY <1>2, <1>3 DEF IInv, Paths, Candidates
  <2> QED
    BY <1>1, <1>3, <1>5, <2>1, <2>2 DEF Candidates
<1>7. Reached'
  <2>1. \A i \in 1..K - 1 : \A n \in Open : D[At(i)] <= D[n] => Reaches(At(i), n)
    BY <1>2, <1>4 DEF IInv, Paths, Reached
  <2> QED
    BY <1>1, <1>2, <1>3, <1>5, <2>1 DEF Reached
<1>8. Returning'
  <2>1. ASSUME NEW n \in Waiting \ C
        PROVE  \E i \in 1..K - 1 : D[At(i)] < D[n] /\ Reaches(n, At(i))
    <3>1. PICK i \in 1..K : D[At(i)] < D[n] /\ Reaches(n, At(i))
      BY <1>2 DEF IInv, Paths, Returning
    <3>2. n \in Open /\ ~ (D[v] <= D[n]) /\ D[v] \in Nat /\ D[n] \in Nat
      BY <1>2, <1>3
    <3>3. i # K
      BY <1>2, <3>1, <3>2
    <3>4. i \in 1..K - 1
      BY <1>K, <3>3, Positions
    <3> QED
      BY <3>1, <3>4
  <2>2. \A n \in Waiting' : \E i \in DOMAIN frames' :
          D'[frames'[i].node] < D'[n] /\ Reaches(n, frames'[i].node)
    BY <1>1, <1>2, <1>3, <2>1
  <2> QED
    BY <1>5, <2>2 DEF Returning
<1> QED
  BY <1>6, <1>7, <1>8 DEF Paths

(* The members reach each other, and all they reach is decided now: no     *)
(* candidate among them is older than the root.                            *)
LEMMA MembersConnected ==
  ASSUME IInv, CloseComponent
  PROVE  /\ \A n \in Members : D[Root] <= D[rep[n]] /\ D[rep[n]] \in Nat
         /\ \A n \in Members : Children(n) \subseteq inSCC'
         /\ \A n \in Members : Reaches(Root, n) /\ Reaches(n, Root)
<1> USE DEF At
<1> DEFINE v == Root
           C == Members
           K == Len(frames)
<1>1. /\ frames # <<>> /\ top.child = None /\ top.left = {} /\ frames' = Below /\ rep[v] = v
  BY CloseEffect DEF Root
<1>2. /\ K \in Nat /\ K > 0 /\ DOMAIN frames = 1..K /\ v = At(K)
      /\ \A i \in 1..K - 1 : D[At(i)] < D[v]
      /\ \A n \in Waiting : D[v] < D[n] => D[rep[v]] <= D[rep[n]]
      /\ \A c \in Children(v) : Known(v, c)
      /\ \A n \in Open : D[rep[n]] \in Nat
      /\ Waiting \subseteq Open
  BY <1>1, LeaveFacts DEF Root
<1>3. /\ v \in Open /\ inSCC' = inSCC \union C
      /\ \A n \in Open : n \in C <=> D[v] <= D[n]
      /\ \A n \in Taken : n \in Waiting /\ D[v] < D[n]
      /\ \A n \in Open : D[n] \in Nat
  BY CloseFacts
<1>4. C = {v} \union Taken
  BY DEF Members
<1> HIDE DEF v, C, K
<1>5. \A n \in C : D[v] <= D[rep[n]] /\ D[rep[n]] \in Nat
  BY <1>1, <1>2, <1>3, <1>4
<1>6. ASSUME NEW n \in C, NEW c \in Children(n) PROVE c \in inSCC'
  <2>1. Known(n, c)
    BY <1>2, <1>3, <1>4 DEF IInv, Roots, Edges
  <2>2. CASE c \in Open /\ D[rep[n]] <= D[c]
    <3>1. D[v] <= D[c]
      BY <1>3, <1>5, <2>2
    <3> QED
      BY <1>3, <2>2, <3>1
  <2> QED
    BY <1>3, <2>1, <2>2 DEF Known
<1>7. \A i \in 1..K : D[At(i)] <= D[v]
  <2>1. K \in 1..K /\ \A i \in 1..K : i = K \/ i \in 1..K - 1
    BY <1>2, Positions
  <2>2. \A i \in 1..K : At(i) \in Open
    BY <1>2 DEF IInv, Search, OnThePath
  <2> QED
    BY <1>2, <1>3, <2>1, <2>2
<1>8. ASSUME NEW n \in C PROVE Reaches(v, n) /\ Reaches(n, v)
  <2>1. CASE n = v
    BY <2>1, ReachesFacts
  <2>2. CASE n \in Taken
    <3>1. K \in 1..K /\ n \in Open /\ D[v] <= D[n]
      BY <1>2, <1>3, <2>2
    <3>2. Reaches(v, n)
      BY <1>2, <3>1 DEF IInv, Paths, Reached
    <3>3. PICK i \in 1..K : Reaches(n, At(i))
      BY <1>2, <1>3, <2>2 DEF IInv, Paths, Returning
    <3>4. Reaches(At(i), v)
      BY <1>2, <1>3, <1>7 DEF IInv, Paths, Reached
    <3> QED
      BY <3>2, <3>3, <3>4, ReachesFacts
  <2> QED
    BY <1>4, <2>1, <2>2
<1> QED
  BY <1>5, <1>6, <1>8 DEF v, C

(* What stays open keeps its candidates, and has none of what was closed.  *)
LEMMA CloseRoots ==
  ASSUME IInv, CloseComponent
  PROVE  Roots'
<1> USE DEF At
<1> DEFINE v == Root
           C == Members
           K == Len(frames)
<1>1. /\ frames # <<>> /\ top.child = None /\ top.left = {} /\ frames' = Below
      /\ SetReps(Taken, v) /\ UNCHANGED <<graph, D, visited>>
  BY CloseEffect DEF Root
<1>2. /\ K \in Nat /\ K > 0 /\ DOMAIN frames = 1..K /\ v = At(K)
      /\ DOMAIN frames' = 1..K - 1 /\ Len(frames') = K - 1
      /\ \A i \in 1..K - 1 : frames'[i] = frames[i] /\ D[At(i)] < D[v]
      /\ Waiting \subseteq Open
      /\ \A n \in Open : n \in visited /\ rep[n] \in Open /\ D[rep[n]] <= D[n]
  BY <1>1, LeaveFacts DEF Root
<1>3. /\ v \in Open /\ Open' = Open \ C /\ Waiting' = Waiting \ C /\ inSCC' = inSCC \union C
      /\ \A n \in Open : n \in C <=> D[v] <= D[n]
      /\ \A n \in Open : D[n] \in Nat /\ n \in Node
      /\ \A n \in visited : n \notin C => rep'[n] = rep[n]
  BY CloseFacts
<1>4. C = {v} \union Taken
  BY DEF Members
<1>5. \A n \in C : D[v] <= D[rep[n]]
  BY MembersConnected
<1>K. K \in Nat /\ K = Len(frames)
  BY <1>2
<1>6. \A i \in 1..K - 1 : i \in 1..K /\ i + 1 \in 1..K /\ i < K /\ i # K
  BY <1>K, Positions
<1> HIDE DEF v, C, K
(* What stays open is older than the root, and so are its candidates.      *)
<1>7. ASSUME NEW n \in Open \ C
      PROVE  /\ rep'[n] = rep[n] /\ rep[n] \in Open \ C /\ D[n] < D[v] /\ D[rep[n]] < D[v]
             /\ D[n] \in Nat /\ D[rep[n]] \in Nat
  <2>1. n \in visited /\ rep[n] \in Open /\ D[rep[n]] <= D[n] /\ D[n] \in Nat /\ D[rep[n]] \in Nat
        /\ D[v] \in Nat
    BY <1>2, <1>3
  <2>2. D[n] < D[v] /\ D[rep[n]] < D[v]
    BY <1>3, <2>1
  <2> QED
    BY <1>3, <2>1, <2>2
<1>8. \A i \in 1..K - 1 : frames'[i].node = At(i) /\ At(i) \in Open \ C
  <2> TAKE i \in 1..K - 1
  <2>1. At(i) \in Open /\ frames'[i].node = At(i) /\ D[At(i)] < D[v]
    BY <1>2, <1>6 DEF IInv, Search, OnThePath
  <2> QED
    BY <1>3, <2>1
<1>9. Edges'
  <2>1. \A n : Children(n)' = Children(n)
    BY <1>1, GraphSame
  <2>2. ASSUME NEW n \in Open \ C, NEW c, Known(n, c)
        PROVE  c \in inSCC' \/ (c \in Open' /\ D'[rep'[n]] <= D'[c])
    BY <1>1, <1>3, <1>7, <2>2 DEF Known
  <2>3. \A n \in Waiting' : \A c \in Children(n) :
          c \in inSCC' \/ (c \in Open' /\ D'[rep'[n]] <= D'[c])
    BY <1>2, <1>3, <2>2 DEF IInv, Roots, Edges
  <2>4. \A i \in 1..K - 1 : \A c \in Children(At(i)) :
          \/ c \in frames'[i].left \/ c = frames'[i].child
          \/ c \in inSCC' \/ (c \in Open' /\ D'[rep'[At(i)]] <= D'[c])
    <3> TAKE i \in 1..K - 1
    <3> TAKE c \in Children(At(i))
    <3>1. c \in frames[i].left \/ c = frames[i].child \/ Known(At(i), c)
      BY <1>2, <1>6 DEF IInv, Roots, Edges
    <3> QED
      BY <1>2, <1>8, <2>2, <3>1
  <2> QED
    BY <1>2, <1>8, <2>1, <2>3, <2>4 DEF Edges, Known
<1>10. Passed'
  <2>1. ASSUME NEW i \in 1..K - 1, NEW n \in Waiting', D[At(i)] < D[n]
        PROVE  D'[rep'[At(i)]] <= D'[rep'[n]] \/ (i < K - 1 /\ D[At(i + 1)] < D[n])
    <3>1. n \in Waiting /\ n \in Open \ C
      BY <1>2, <1>3
    <3>2. D[rep[At(i)]] <= D[rep[n]] \/ D[At(i + 1)] < D[n]
      BY <1>2, <1>6, <1>K, <2>1, <3>1 DEF IInv, Roots, Passed
    <3>3. CASE D[rep[At(i)]] <= D[rep[n]]
      BY <1>1, <1>7, <1>8, <3>1, <3>3
    <3>4. CASE D[At(i + 1)] < D[n]
      <4>1. i < K - 1 \/ i + 1 = K
        BY <1>K
      <4>2. i + 1 # K
        BY <1>2, <1>3, <1>7, <3>1, <3>4
      <4> QED
        BY <3>4, <4>1, <4>2
    <3> QED
      BY <3>2, <3>3, <3>4
  <2>2. \A i \in 1..K - 1 : i < K - 1 => i + 1 \in 1..K - 1
    BY <1>K
  <2>3. \A i \in 1..K - 1 : \A n \in Waiting' : D'[frames'[i].node] < D'[n] =>
          D'[rep'[frames'[i].node]] <= D'[rep'[n]] \/ (i < K - 1 /\ D'[frames'[i + 1].node] < D'[n])
    BY <1>1, <1>8, <2>1, <2>2
  <2> QED
    BY <1>2, <2>3 DEF Passed
<1>11. Lent'
  <2>1. ASSUME NEW r \in Open \ C
        PROVE  subNodes'[r] = subNodes[r] /\ (r \in repNodes' => r \in repNodes)
    BY <1>1, <1>3, <1>4 DEF SetReps
  (* What r has lent it still has: the root has taken none of it.          *)
  <2>2. ASSUME NEW r \in Open \ C, NEW n \in Open, D[rep[n]] <= D[r] PROVE n \in Open \ C
    <3>1. D[r] < D[v] /\ D[r] \in Nat /\ D[v] \in Nat /\ D[rep[n]] \in Nat
      BY <1>2, <1>3, <1>7
    <3> QED
      BY <1>5, <2>2, <3>1
  <2>3. ASSUME NEW r \in Open', NEW n \in subNodes'[r]
        PROVE  n \in Open' /\ D[r] <= D[n] /\ D[rep'[n]] <= D[r]
    <3>1. r \in Open \ C /\ n \in subNodes[r]
      BY <1>3, <2>1, <2>3
    <3>2. n \in Open /\ D[r] <= D[n] /\ D[rep[n]] <= D[r]
      BY <3>1 DEF IInv, Roots, Lent
    <3> QED
      BY <1>3, <1>7, <2>2, <3>1, <3>2
  <2>4. ASSUME NEW n \in Open', rep'[n] = n PROVE n \in subNodes'[n]
    <3>1. n \in Open \ C
      BY <1>3
    <3>2. rep[n] = n
      BY <1>7, <2>4, <3>1
    <3>3. n \in subNodes[n]
      BY <3>1, <3>2 DEF IInv, Roots, Lent
    <3> QED
      BY <2>1, <3>1, <3>3
  <2>5. ASSUME NEW r \in Open', r \in repNodes'
        PROVE  \E n \in Open' : D[r] < D[n] /\ D[rep'[n]] <= D[r]
    <3>1. r \in Open \ C /\ r \in repNodes
      BY <1>3, <2>1, <2>5
    <3>2. PICK n \in Open : D[r] < D[n] /\ D[rep[n]] <= D[r]
      BY <3>1 DEF IInv, Roots, Lent
    <3>3. n \in Open \ C
      BY <2>2, <3>1, <3>2
    <3> QED
      BY <1>3, <1>7, <3>2, <3>3
  <2> QED
    BY <1>1, <2>3, <2>4, <2>5 DEF Lent
<1> QED
  BY <1>9, <1>10, <1>11 DEF Roots

(* What was closed is one component, and nothing else belongs to it.       *)
LEMMA CloseDecided ==
  ASSUME IInv, CloseComponent
  PROVE  Closed' /\ Topological'
<1> DEFINE v == Root
           C == Members
<1>1. /\ SetReps(Taken, v) /\ UNCHANGED <<graph, D, visited>> /\ rep[v] = v /\ T' = Append(T, v)
  BY CloseEffect DEF Root
<1>2. /\ v \in Open /\ C \subseteq Open /\ C \subseteq Node /\ v \notin Taken /\ inSCC' = inSCC \union C
      /\ C \subseteq graph.nodes /\ D[v] \in Nat
      /\ \A n \in Open : n \in C <=> D[v] <= D[n]
      /\ \A n \in Open : D[n] \in Nat
      /\ \A n \in C : rep'[n] = v
      /\ \A n \in visited : n \notin C => rep'[n] = rep[n]
  BY CloseFacts
<1>3. C = {v} \union Taken
  BY DEF Members
<1>4. /\ \A n \in C : Children(n) \subseteq inSCC'
      /\ \A n \in C : Reaches(v, n) /\ Reaches(n, v)
  BY MembersConnected
<1> HIDE DEF v, C
<1>5. \A n \in inSCC : /\ n \notin C /\ n \in visited /\ n \in Node /\ n \in graph.nodes
                      /\ rep[n] \in inSCC /\ rep'[n] = rep[n] /\ rep[n] # v
  <2>1. \A n \in inSCC : rep[n] \in inSCC /\ n \in visited /\ n \in Node /\ n \in graph.nodes
    BY Basics DEF IInv, Closed, Class
  <2> QED
    BY <1>2, <2>1 DEF Open
<1>6. /\ \A n \in inSCC : Class(n)' = Class(n)
      /\ \A n \in C : Class(n)' = C
  BY <1>2, <1>3, <1>5 DEF Class
(* The root keeps what it has lent and takes the rest.                     *)
<1>7. subNodes'[v] = C /\ \A n \in Taken : subNodes'[n] = {}
  <2>1. \A n \in Node : subNodes'[n] = IF n = v THEN subNodes[n] \union Taken
                                      ELSE IF n \in Taken THEN {} ELSE subNodes[n]
    BY <1>1 DEF SetReps
  <2>2. v \in subNodes[v]
    BY <1>1, <1>2 DEF IInv, Roots, Lent
  <2>3. subNodes[v] \subseteq C
    BY <1>2 DEF IInv, Roots, Lent
  <2>4. subNodes'[v] = C
    <3>1. v \in Node
      BY <1>2, <1>3
    <3>2. subNodes'[v] = subNodes[v] \union Taken
      BY <2>1, <3>1
    <3> QED
      BY <1>3, <2>2, <2>3, <3>2
  <2>5. \A n \in Taken : n \in Node /\ n # v
    BY <1>2, <1>3
  <2> QED
    BY <2>1, <2>4, <2>5
<1>8. \A n \in inSCC : subNodes'[n] = subNodes[n] /\ (n \in repNodes' <=> n \in repNodes)
  <2>1. \A n \in inSCC : n # v /\ n \notin Taken /\ n \in Node
    BY <1>3, <1>5
  <2> QED
    BY <1>1, <2>1 DEF SetReps
<1>9. /\ v \in repNodes' <=> C # {v}
      /\ \A n \in Taken : n \notin repNodes'
  <2>1. CASE Taken = {}
    <3>1. v \notin repNodes
      <4>1. ASSUME v \in repNodes PROVE FALSE
        <5>1. PICK n \in Open : D[v] < D[n]
          BY <1>2, <4>1 DEF IInv, Roots, Lent
        <5>2. D[n] \in Nat /\ n # v
          BY <1>2, <5>1
        <5>3. n \in C
          BY <1>2, <5>1, <5>2
        <5> QED
          BY <1>3, <2>1, <5>2, <5>3
      <4> QED
        BY <4>1
    <3> QED
      BY <1>1, <1>3, <2>1, <3>1 DEF SetReps
  <2>2. CASE Taken # {}
    <3>1. PICK n \in Taken : n # v
      BY <1>2, <2>2
    <3>2. repNodes' = (repNodes \ Taken) \union {v}
      BY <1>1, <3>1 DEF SetReps
    <3> QED
      BY <1>2, <1>3, <3>1, <3>2
  <2> QED
    BY <2>1, <2>2
(* What was decided before is closed: it does not reach the new component. *)
<1>10. \A m \in inSCC : \A n \in C : ~ Reaches(m, n)
  <2>1. inSCC \in SUBSET graph.nodes /\ \A m \in inSCC : Children(m) \subseteq inSCC
    BY <1>5 DEF IInv, Closed
  <2> QED
    BY <1>5, <2>1, ReachesFacts
<1>11. \A m, n : Reaches(m, n)' <=> Reaches(m, n)
  BY <1>1, GraphSame
<1>12. \A n : Children(n)' = Children(n)
  BY <1>1, GraphSame
<1>13. Closed'
  <2>1. ASSUME NEW n \in inSCC'
        PROVE  /\ rep'[n] \in Class(n)' /\ subNodes'[rep'[n]] = Class(n)'
               /\ \A m \in Class(n)' \ {rep'[n]} : subNodes'[m] = {} /\ m \notin repNodes'
               /\ rep'[n] \in repNodes' <=> Class(n)' # {rep'[n]}
               /\ Children(n) \subseteq inSCC'
               /\ Reaches(n, rep'[n]) /\ Reaches(rep'[n], n)
    <3>1. CASE n \in C
      <4>1. Class(n)' = C /\ rep'[n] = v /\ v \in C
        BY <1>2, <1>3, <1>6, <3>1
      <4> QED
        BY <1>3, <1>4, <1>7, <1>9, <3>1, <4>1
    <3>2. CASE n \in inSCC
      <4>1. Class(n)' = Class(n) /\ rep'[n] = rep[n] /\ rep[n] \in inSCC /\ Class(n) \subseteq inSCC
        BY <1>5, <1>6, <3>2 DEF Class
      <4>2. /\ rep[n] \in Class(n) /\ subNodes[rep[n]] = Class(n)
            /\ \A m \in Class(n) \ {rep[n]} : subNodes[m] = {} /\ m \notin repNodes
            /\ rep[n] \in repNodes <=> Class(n) # {rep[n]}
            /\ Children(n) \subseteq inSCC
            /\ Reaches(n, rep[n]) /\ Reaches(rep[n], n)
        BY <3>2 DEF IInv, Closed
      <4> QED
        BY <1>2, <1>8, <4>1, <4>2
    <3> QED
      BY <1>2, <3>1, <3>2
  <2>2. ASSUME NEW m \in inSCC', NEW n \in inSCC', Reaches(m, n), Reaches(n, m)
        PROVE  rep'[m] = rep'[n]
    <3>1. CASE m \in inSCC /\ n \in inSCC
      BY <1>5, <2>2, <3>1 DEF IInv, Closed
    <3> QED
      BY <1>2, <1>10, <2>2, <3>1
  <2>3. \A n \in inSCC' : (Reaches(n, rep[n]) /\ Reaches(rep[n], n))'
    BY <1>11, <2>1
  <2> QED
    BY <1>11, <1>12, <2>1, <2>2, <2>3 DEF Closed
<1>14. Topological'
  <2>1. /\ DOMAIN T = 1..Len(T) /\ Len(T) \in Nat /\ DOMAIN T' = 1..Len(T) + 1
        /\ T'[Len(T) + 1] = v /\ \A i \in 1..Len(T) : T'[i] = T[i]
    BY <1>1, <1>2, <1>3, AppendFacts DEF IInv, TInv, TypeOK
  <2>2. {T[i] : i \in 1..Len(T)} = {rep[n] : n \in inSCC}
    BY <2>1 DEF IInv, Topological
  <2>3. \A i \in 1..Len(T) : T[i] \in inSCC /\ T[i] # v
    <3> TAKE i \in 1..Len(T)
    <3>1. T[i] \in {rep[n] : n \in inSCC}
      BY <2>2
    <3>2. PICK n \in inSCC : T[i] = rep[n]
      BY <3>1
    <3> QED
      BY <1>5, <3>2
  <2>4. {T'[i] : i \in DOMAIN T'} = {rep'[n] : n \in inSCC'}
    <3>1. \A i \in DOMAIN T' : \E n \in inSCC' : T'[i] = rep'[n]
      <4> TAKE i \in DOMAIN T'
      <4>1. CASE i = Len(T) + 1
        BY <1>2, <1>3, <2>1, <4>1
      <4>2. CASE i \in 1..Len(T)
        <5>1. PICK n \in inSCC : T[i] = rep[n]
          BY <2>2, <4>2
        <5> QED
          BY <1>2, <1>5, <2>1, <4>2, <5>1
      <4> QED
        BY <2>1, <4>1, <4>2
    <3>2. \A n \in inSCC' : \E i \in DOMAIN T' : T'[i] = rep'[n]
      <4> TAKE n \in inSCC'
      <4>1. CASE n \in C
        BY <1>2, <2>1, <4>1
      <4>2. CASE n \in inSCC
        <5>1. PICK i \in 1..Len(T) : T[i] = rep[n]
          BY <2>2, <4>2
        <5> QED
          BY <1>5, <2>1, <4>2, <5>1
      <4> QED
        BY <1>2, <4>1, <4>2
    <3> QED
      BY <3>1, <3>2
  <2>5. ASSUME NEW i \in DOMAIN T', NEW j \in DOMAIN T', T'[i] = T'[j] PROVE i = j
    BY <2>1, <2>3, <2>5 DEF IInv, Topological
  <2>6. ASSUME NEW i \in DOMAIN T', NEW j \in DOMAIN T', NEW e \in graph.edges,
               e[1] \in inSCC', rep'[e[1]] = T'[i], rep'[e[2]] = T'[j]
        PROVE  j <= i
    <3>1. CASE i = Len(T) + 1
      BY <2>1, <3>1
    <3>2. CASE i \in 1..Len(T)
      <4>1. T'[i] = T[i] /\ T[i] # v /\ i \in DOMAIN T
        BY <2>1, <2>3, <3>2
      <4>2. e[1] \in inSCC
        BY <1>2, <2>6, <4>1
      <4>3. e[2] \in inSCC
        BY <4>2 DEF IInv, Closed, Children
      <4>4. rep[e[1]] = T[i] /\ rep[e[2]] = T'[j] /\ T'[j] # v
        BY <1>5, <2>6, <4>1, <4>2, <4>3
      <4>5. j \in 1..Len(T) /\ T'[j] = T[j]
        BY <2>1, <4>4
      <4> QED
        BY <2>1, <4>1, <4>2, <4>4, <4>5 DEF IInv, Topological
    <3> QED
      BY <2>1, <3>1, <3>2
  <2> QED
    BY <1>1, <2>4, <2>5, <2>6 DEF Topological
<1> QED
  BY <1>13, <1>14

(* Closing a component keeps the invariant.                                *)
LEMMA CloseStep ==
  ASSUME IInv, CloseComponent, TInv'
  PROVE  IInv'
  BY CloseSearch, ClosePaths, CloseRoots, CloseDecided DEF IInv

-----------------------------------------------------------------------------
(* find() starts: nothing is visited.                                      *)
LEMMA FindStep ==
  ASSUME IInv, Find, TInv'
  PROVE  IInv'
<1>1. /\ pc = "done" /\ visited' = {} /\ inSCC' = {} /\ SS' = <<>> /\ T' = <<>> /\ repNodes' = {}
      /\ subNodes' = [n \in Node |-> {}] /\ left' = graph'.nodes /\ pc' = "find"
      /\ UNCHANGED frames
  BY DEF Find, Clear
<1>2. frames = <<>>
  BY <1>1 DEF IInv, TInv, Named
<1>3. /\ frames' = <<>> /\ DOMAIN frames' = {} /\ DOMAIN SS' = {} /\ DOMAIN T' = {}
  BY <1>1, <1>2
<1>4. Open' = {} /\ Waiting' = {}
  BY <1>1, <1>3 DEF Open, Waiting
<1>5. Search'
  <2>1. Control'
    BY <1>1 DEF Control
  <2>2. Fresh'
    BY <1>1 DEF Fresh
  <2>3. OnThePath' /\ Stacked'
    BY <1>3, <1>4 DEF OnThePath, Stacked
  <2> QED
    BY <2>1, <2>2, <2>3 DEF Search
<1>6. Paths'
  BY <1>3, <1>4 DEF Paths, Candidates, Reached, Returning
<1>7. Roots'
  BY <1>3, <1>4 DEF Roots, Edges, Passed, Lent
<1>8. Closed' /\ Topological'
  BY <1>1, <1>3 DEF Closed, Topological
<1> QED
  BY <1>5, <1>6, <1>7, <1>8 DEF IInv

(* No graph has been searched yet.                                         *)
LEMMA InitIInv ==
  ASSUME Init
  PROVE  IInv
<1>1. TInv
  BY InitTyped
<1>2. /\ frames = <<>> /\ DOMAIN frames = {} /\ DOMAIN SS = {} /\ DOMAIN T = {}
      /\ graph.nodes = {} /\ visited = {} /\ inSCC = {} /\ left = {} /\ repNodes = {}
      /\ subNodes = [n \in Node |-> {}]
  BY DEF Init
<1>3. Open = {} /\ Waiting = {}
  BY <1>2 DEF Open, Waiting
<1>4. Search
  BY <1>2, <1>3 DEF Search, Control, Fresh, OnThePath, Stacked
<1>5. Paths /\ Roots
  BY <1>2, <1>3 DEF Paths, Candidates, Reached, Returning, Roots, Edges, Passed, Lent
<1>6. Closed /\ Topological
  BY <1>2 DEF Closed, Topological
<1> QED
  BY <1>1, <1>4, <1>5, <1>6 DEF IInv

(* Only the nodes left, or the end of find(), change.                      *)
LEMMA OnlyControlStep ==
  ASSUME IInv, TInv', Control', UNCHANGED <<graph, I, D, info, SS, T, frames>>
  PROVE  IInv'
<1>1. /\ Open' = Open /\ Waiting' = Waiting /\ OnPath' = OnPath
      /\ \A i : At(i)' = At(i)
      /\ \A n : Class(n)' = Class(n)
  BY DEF info, Open, Waiting, OnPath, At, Class
<1>2. /\ \A n : Children(n)' = Children(n)
      /\ \A m, n : Reaches(m, n)' <=> Reaches(m, n)
      /\ \A m, n : Known(m, n)' <=> Known(m, n)
  <2>1. \A m, n : Known(m, n)' <=> Known(m, n)
    BY <1>1 DEF info, Known
  <2> QED
    BY <2>1, GraphSame
<1>3. Search'
  BY <1>1, <1>2 DEF IInv, Search, Fresh, OnThePath, Stacked, info
<1>4. Paths'
  BY <1>1, <1>2 DEF IInv, Paths, Candidates, Reached, Returning, info
<1>5. Roots'
  BY <1>1, <1>2 DEF IInv, Roots, Edges, Passed, Lent, info
<1>6. Closed' /\ Topological'
  BY DecidedStays DEF IInv, TInv, info
<1> QED
  BY <1>3, <1>4, <1>5, <1>6 DEF IInv

(* Every step keeps the invariant.                                         *)
LEMMA NextIInv ==
  ASSUME IInv, [Next]_vars
  PROVE  IInv'
<1>1. TInv'
  BY NextTyped DEF IInv
<1>2. CASE Find
  BY <1>1, <1>2, FindStep
<1>3. CASE NextRoot
  <2>1. ASSUME NEW v, Visits(v) PROVE IInv'
    BY <1>1, <2>1, VisitStep
  <2>2. ASSUME NEW n \in visited, left' = left \ {n},
               UNCHANGED <<graph, pc, I, D, info, SS, T, frames>>
        PROVE  IInv'
    <3>1. Control'
      BY <2>2 DEF IInv, Search, Control, info
    <3>2. UNCHANGED <<graph, I, D, info, SS, T, frames>>
      BY <2>2
    <3> QED
      BY <1>1, <3>1, <3>2, OnlyControlStep
  <2>3. TInv
    BY DEF IInv
  <2> QED
    BY <1>3, <2>1, <2>2, <2>3, RootVisits
<1>4. CASE NextChild
  BY <1>1, <1>4, ChildVisits, VisitStep, LooksAtStep DEF IInv
<1>5. CASE ReturnFromChild
  BY <1>1, <1>5, ReturnStep
<1>6. CASE NotRoot
  BY <1>1, <1>6, NotRootStep
<1>7. CASE CloseComponent
  BY <1>1, <1>7, CloseStep
<1>8. CASE Finish
  <2>1. Control'
    BY <1>8 DEF Finish, IInv, Search, Control, info
  <2> QED
    BY <1>1, <1>8, <2>1, OnlyControlStep DEF Finish
<1>9. CASE UNCHANGED vars
  <2>1. Control'
    BY <1>9 DEF vars, IInv, Search, Control, info
  <2> QED
    BY <1>1, <1>9, <2>1, OnlyControlStep DEF vars
<1> QED
  BY <1>2, <1>3, <1>4, <1>5, <1>6, <1>7, <1>8, <1>9 DEF Next, Step

(* The inductive invariant.                                                *)
LEMMA AlwaysIInv == Spec => []IInv
<1>1. Init => IInv
  BY InitIInv
<1>2. IInv /\ [Next]_vars => IInv'
  BY NextIInv
<1> QED
  BY <1>1, <1>2, PTL DEF Spec

-----------------------------------------------------------------------------
(* A component stays as it was decided while find() visits the rest of the *)
(* graph, and repNodes holds the roots of those that were cycles.          *)
THEOREM DecidedForGood == Spec => []Decided
<1>1. ASSUME IInv PROVE Decided
  <2>1. ASSUME NEW n \in inSCC
        PROVE  rep[n] \in repNodes <=> Cardinality(Class(n)) > 1
    <3>1. /\ rep[n] \in Class(n)
          /\ rep[n] \in repNodes <=> Class(n) # {rep[n]}
      BY <1>1 DEF IInv, Closed
    <3>2. IsFiniteSet(Class(n))
      BY <1>1, FS_Subset DEF IInv, TInv, Named, TypeOK, Class
    <3>3. CASE Class(n) = {rep[n]}
      <4>1. Cardinality(Class(n)) = 1
        BY <3>3, FS_Singleton
      <4> QED
        BY <3>1, <3>3, <4>1
    <3>4. CASE Class(n) # {rep[n]}
      <4>1. PICK m \in Class(n) : m # rep[n]
        BY <3>1, <3>4
      <4>2. {rep[n], m} \subseteq Class(n)
        BY <3>1, <4>1
      <4>3. Cardinality({rep[n], m}) = 2 /\ IsFiniteSet({rep[n], m})
        <5>1. IsFiniteSet({rep[n]}) /\ Cardinality({rep[n]}) = 1
          BY FS_Singleton
        <5>2. /\ IsFiniteSet({rep[n]} \union {m})
              /\ Cardinality({rep[n]} \union {m}) = Cardinality({rep[n]}) + 1
          BY <4>1, <5>1, FS_AddElement
        <5>3. {rep[n]} \union {m} = {rep[n], m}
          OBVIOUS
        <5> QED
          BY <5>1, <5>2, <5>3
      <4>4. Cardinality({rep[n], m}) <= Cardinality(Class(n)) /\ Cardinality(Class(n)) \in Nat
        BY <3>2, <4>2, FS_Subset, FS_CardinalityType
      <4> QED
        BY <3>1, <3>4, <4>3, <4>4
    <3> QED
      BY <3>3, <3>4
  <2>2. ASSUME NEW n \in inSCC
        PROVE  /\ rep[n] \in Class(n) /\ subNodes[rep[n]] = Class(n)
               /\ \A m \in Class(n) \ {rep[n]} : subNodes[m] = {} /\ m \notin repNodes
               /\ Children(n) \subseteq inSCC
    BY <1>1 DEF IInv, Closed
  <2> QED
    BY <2>1, <2>2 DEF Decided, Class
<1> QED
  BY <1>1, AlwaysIInv, PTL

(* At any time the stack of roots is in topological order: what a solver   *)
(* pops first feeds what it pops later, and each component is there once.  *)
THEOREM StackTopological == Spec => []Topological
<1>1. IInv => Topological
  BY DEF IInv
<1> QED
  BY <1>1, AlwaysIInv, PTL

(* When find() returns, all nodes are decided and two nodes have the same  *)
(* representative exactly if they reach each other in the graph as it is   *)
(* now, whatever the detector found on earlier graphs.                     *)
THEOREM ComponentsRight == Spec => []ComponentsFound
<1>1. ASSUME IInv, pc = "done"
      PROVE  /\ inSCC = graph.nodes /\ SS = <<>>
             /\ \A n \in graph.nodes : {m \in graph.nodes : rep[m] = rep[n]} = Component(n)
  <2>1. frames = <<>> /\ DOMAIN frames = {}
    BY <1>1 DEF IInv, TInv, Named
  <2>2. Waiting = {}
    BY <1>1, <2>1 DEF IInv, Paths, Returning
  <2>3. SS = <<>>
    <3>1. SS \in Seq(Node) /\ DOMAIN SS = {}
      BY <1>1, <2>2 DEF IInv, TInv, TypeOK, Waiting
    <3> QED
      BY <3>1, LenProperties, EmptySeq
  <2>4. inSCC = graph.nodes
    <3>1. Open = {}
      BY <1>1, <2>1, <2>2 DEF IInv, Search, OnThePath, OnPath
    <3>2. graph.nodes \subseteq visited
      BY <1>1 DEF IInv, Search, Control
    <3> QED
      BY <1>1, <3>1, <3>2 DEF IInv, TInv, TypeOK, Open
  <2>5. ASSUME NEW m \in graph.nodes, NEW n \in graph.nodes
        PROVE  rep[m] = rep[n] <=> Reaches(n, m) /\ Reaches(m, n)
    <3>1. /\ Reaches(m, rep[m]) /\ Reaches(rep[m], m)
          /\ Reaches(n, rep[n]) /\ Reaches(rep[n], n)
          /\ Reaches(m, n) /\ Reaches(n, m) => rep[m] = rep[n]
      BY <1>1, <2>4 DEF IInv, Closed
    <3>2. ASSUME rep[m] = rep[n] PROVE Reaches(n, m) /\ Reaches(m, n)
      BY <3>1, <3>2, ReachesFacts
    <3> QED
      BY <3>1, <3>2
  <2>6. ASSUME NEW n \in graph.nodes
        PROVE  {m \in graph.nodes : rep[m] = rep[n]} = Component(n)
    BY <2>5 DEF Component
  <2> QED
    BY <2>3, <2>4, <2>6
<1>2. IInv => ComponentsFound
  BY <1>1 DEF ComponentsFound
<1> QED
  BY <1>2, AlwaysIInv, PTL
=============================================================================
