---------------------------- MODULE SCCDetection ----------------------------
(***************************************************************************)
(* The cycle detection every solver of SVF runs on its graph               *)
(* (include/Util/SCC.h): Nuutila's variant of Tarjan's algorithm, with the *)
(* recursion of visit() as an explicit stack of frames.  One detector is   *)
(* used for a graph that changes between two calls of find(); whatever its *)
(* caller has left of the stack of roots is cleared first.                 *)
(***************************************************************************)
EXTENDS Naturals, Sequences, FiniteSets

CONSTANTS Node,
          Graphs,     \* the graphs find() may meet: [nodes, edges] records
          None        \* no node; the representative UINT_MAX

ASSUME NoneAssumption == None \notin Node
ASSUME GraphAssumption ==
  \A g \in Graphs : g.nodes \subseteq Node /\ g.edges \subseteq g.nodes \X g.nodes

VARIABLES
  graph, pc,
  I, D,                             \* visits, and when each node was visited
  visited, inSCC, rep, subNodes,    \* GNodeSCCInfo
  repNodes,
  SS, T,                            \* nodes that are no root; roots; last is top
  left,                             \* nodes find() has not come to
  frames                            \* visit(): node, children left, child

info == <<visited, inSCC, rep, subNodes, repNodes>>
vars == <<graph, pc, I, D, info, SS, T, left, frames>>

Init ==
  /\ graph = [nodes |-> {}, edges |-> {}] /\ pc = "done"
  /\ I = 0 /\ D = [n \in Node |-> 0]
  /\ visited = {} /\ inSCC = {} /\ rep = [n \in Node |-> None]
  /\ subNodes = [n \in Node |-> {}] /\ repNodes = {}
  /\ SS = <<>> /\ T = <<>> /\ left = {} /\ frames = <<>>

Children(v) == {e[2] : e \in {f \in graph.edges : f[1] = v}}

ClearButT ==           \* mutant: the roots of the last run stay on the stack
  /\ I' = 0 /\ D' = [n \in Node |-> 0]
  /\ visited' = {} /\ inSCC' = {} /\ rep' = [n \in Node |-> None]
  /\ subNodes' = [n \in Node |-> {}] /\ repNodes' = {}
  /\ SS' = <<>> /\ UNCHANGED T

ClearButD ==           \* mutant: visit numbers of the last run are kept
  /\ I' = 0 /\ UNCHANGED D
  /\ visited' = {} /\ inSCC' = {} /\ rep' = [n \in Node |-> None]
  /\ subNodes' = [n \in Node |-> {}] /\ repNodes' = {}
  /\ SS' = <<>> /\ T' = <<>>

Clear ==
  /\ I' = 0 /\ D' = [n \in Node |-> 0]
  /\ visited' = {} /\ inSCC' = {} /\ rep' = [n \in Node |-> None]
  /\ subNodes' = [n \in Node |-> {}] /\ repNodes' = {}
  /\ SS' = <<>> /\ T' = <<>>

(* find() starts, on a graph that may have changed since the last call.    *)
Find ==
  /\ pc = "done"
  /\ graph' \in Graphs
  /\ Clear
  /\ pc' = "find" /\ left' = graph'.nodes
  /\ UNCHANGED frames

SetRepsKeepSubs(S, r) ==     \* mutant: a node that lost its root keeps its sub nodes
  /\ rep' = [n \in Node |-> IF n \in S THEN r ELSE rep[n]]
  /\ subNodes' = [subNodes EXCEPT ![r] = @ \union S]
  /\ repNodes' = IF S \subseteq {r} THEN repNodes ELSE (repNodes \ S) \union {r}

(* rep(n, r) for every n in S.                                             *)
SetReps(S, r) ==
  /\ rep' = [n \in Node |-> IF n \in S THEN r ELSE rep[n]]
  /\ subNodes' = [n \in Node |-> IF n = r THEN subNodes[n] \union S
                                 ELSE IF n \in S THEN {} ELSE subNodes[n]]
  /\ repNodes' = IF S \subseteq {r} THEN repNodes ELSE (repNodes \ S) \union {r}

(* visit(v) starts, called from the frames fs.                             *)
Visit(v, fs) ==
  /\ I' = I + 1 /\ D' = [D EXCEPT ![v] = I + 1]
  /\ SetReps({v}, v)
  /\ visited' = visited \union {v}
  /\ frames' = Append(fs, [node |-> v, left |-> Children(v), child |-> None])

NextRoot ==
  /\ pc = "find" /\ frames = <<>>
  /\ \E n \in left :
       /\ left' = left \ {n}
       /\ IF n \in visited THEN UNCHANGED <<I, D, info, frames>>
          ELSE Visit(n, frames) /\ UNCHANGED inSCC
  /\ UNCHANGED <<graph, pc, SS, T>>

top == frames[Len(frames)]
Below == SubSeq(frames, 1, Len(frames) - 1)

NextChild ==
  /\ frames # <<>> /\ top.child = None
  /\ \E w \in top.left :
       LET caller == Append(Below, [top EXCEPT !.left = @ \ {w}, !.child = w])
       IN IF w \in visited THEN frames' = caller /\ UNCHANGED <<I, D, info>>
          ELSE Visit(w, caller) /\ UNCHANGED inSCC
  /\ UNCHANGED <<graph, pc, SS, T, left>>

ReturnAnyChild ==            \* mutant: a node of a finished component may become the root
  /\ frames # <<>> /\ top.child # None
  /\ LET v == top.node w == top.child
     IN SetReps({v}, IF D[rep[v]] < D[rep[w]] THEN rep[v] ELSE rep[w])
  /\ frames' = Append(Below, [top EXCEPT !.child = None])
  /\ UNCHANGED <<graph, pc, I, D, visited, inSCC, SS, T, left>>

ReturnSameChild ==           \* mutant: the iterator is not advanced
  /\ frames # <<>> /\ top.child # None
  /\ LET v == top.node w == top.child
     IN IF w \in inSCC THEN UNCHANGED <<rep, subNodes, repNodes>>
        ELSE SetReps({v}, IF D[rep[v]] < D[rep[w]] THEN rep[v] ELSE rep[w])
  /\ frames' = Append(Below, [top EXCEPT !.child = None, !.left = @ \union {top.child}])
  /\ UNCHANGED <<graph, pc, I, D, visited, inSCC, SS, T, left>>

(* The child has been visited.  While its component is open, the older of  *)
(* the two candidate roots is the candidate of v.                          *)
ReturnFromChild ==
  /\ frames # <<>> /\ top.child # None
  /\ LET v == top.node w == top.child
     IN IF w \in inSCC THEN UNCHANGED <<rep, subNodes, repNodes>>
        ELSE SetReps({v}, IF D[rep[v]] < D[rep[w]] THEN rep[v] ELSE rep[w])
  /\ frames' = Append(Below, [top EXCEPT !.child = None])
  /\ UNCHANGED <<graph, pc, I, D, visited, inSCC, SS, T, left>>

(* No child is left: v waits for its root, or it is the root and takes the *)
(* nodes that wait and were visited after it.                              *)
NotRoot ==
  /\ frames # <<>> /\ top.child = None /\ top.left = {} /\ rep[top.node] # top.node
  /\ SS' = Append(SS, top.node)
  /\ frames' = Below
  /\ UNCHANGED <<graph, pc, I, D, info, T, left>>

CloseComponent ==
  /\ frames # <<>> /\ top.child = None /\ top.left = {} /\ rep[top.node] = top.node
  /\ LET v == top.node
         older == {i \in DOMAIN SS : D[SS[i]] <= D[v]}
         keep == IF older = {} THEN 0 ELSE CHOOSE i \in older : \A j \in older : j <= i
         taken == {SS[i] : i \in keep + 1..Len(SS)}
     IN /\ SS' = SubSeq(SS, 1, keep)
        /\ inSCC' = inSCC \union {v} \union taken
        /\ SetReps(taken, v)
        /\ T' = Append(T, v)
  /\ frames' = Below
  /\ UNCHANGED <<graph, pc, I, D, visited, left>>

Finish ==
  /\ pc = "find" /\ frames = <<>> /\ left = {}
  /\ pc' = "done"
  /\ UNCHANGED <<graph, I, D, info, SS, T, left, frames>>

Step == NextRoot \/ NextChild \/ ReturnFromChild \/ NotRoot \/ CloseComponent \/ Finish
Next == Find \/ Step
Spec == Init /\ [][Next]_vars
FairSpec == Spec /\ WF_vars(Step)
-----------------------------------------------------------------------------
(* The definition the algorithm computes: two nodes share a component if   *)
(* they reach each other.                                                  *)
Reaches(m, n) ==
  \A S \in SUBSET graph.nodes : (m \in S /\ \A v \in S : Children(v) \subseteq S) => n \in S
Component(n) == {m \in graph.nodes : Reaches(n, m) /\ Reaches(m, n)}

TypeOK ==
  /\ graph.nodes \subseteq Node /\ graph.edges \subseteq graph.nodes \X graph.nodes
  /\ pc \in {"done", "find"}
  /\ I \in Nat /\ D \in [Node -> 0..I]
  /\ inSCC \subseteq visited /\ visited \subseteq graph.nodes
  /\ rep \in [Node -> Node \union {None}] /\ subNodes \in [Node -> SUBSET Node]
  /\ repNodes \subseteq graph.nodes
  /\ SS \in Seq(Node) /\ T \in Seq(Node) /\ left \subseteq graph.nodes
  /\ frames \in Seq([node : Node, left : SUBSET Node, child : Node \union {None}])

(* A component is decided as a whole and for good, also while the rest of  *)
(* the graph is still being visited: its members have one root, which      *)
(* knows exactly them (AndersenWave's merging walks these sub nodes), no   *)
(* other member has sub nodes, and all they reach is decided as well.      *)
Decided ==
  \A n \in inSCC :
    LET c == {m \in inSCC : rep[m] = rep[n]} IN
    /\ rep[n] \in c /\ subNodes[rep[n]] = c
    /\ \A m \in c \ {rep[n]} : subNodes[m] = {} /\ m \notin repNodes
    /\ rep[n] \in repNodes <=> Cardinality(c) > 1
    /\ Children(n) \subseteq inSCC

(* Everything is decided when find() returns, and the components are the   *)
(* strongly connected ones of the graph as it is now.                      *)
ComponentsFound ==
  pc = "done" =>
    /\ inSCC = graph.nodes /\ SS = <<>>
    /\ \A n \in graph.nodes : {m \in graph.nodes : rep[m] = rep[n]} = Component(n)

(* The stack of roots is in topological order at all times: popping it, a  *)
(* solver meets each component once, and before all components that it     *)
(* feeds.                                                                  *)
Topological ==
  /\ {T[i] : i \in DOMAIN T} = {rep[n] : n \in inSCC}
  /\ \A i, j \in DOMAIN T :
       /\ T[i] = T[j] => i = j
       /\ \A e \in graph.edges :
            e[1] \in inSCC /\ rep[e[1]] = T[i] /\ rep[e[2]] = T[j] => j <= i

(* find() returns.                                                         *)
Returns == []<>(pc = "done")
=============================================================================
