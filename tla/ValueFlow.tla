----------------------------- MODULE ValueFlow -----------------------------
(***************************************************************************)
(* The sparse value-flow graph the demand-driven analysis walks, and the   *)
(* decisions it makes about one step: contexts (ContextCond, ContextDDA),  *)
(* recursion, which objects agree, and which stores overwrite.             *)
(***************************************************************************)
EXTENDS Naturals, Sequences, FiniteSets

CONSTANTS
  Var,        \* top-level pointers; also names the SVFG node that defines it
  Mem,        \* the other SVFG nodes: stores and memory regions
  Obj,        \* abstract objects
  Fun, Site,  \* functions and call sites
  Programs,   \* the programs, pre-analysed, with the queries asked of them
  MaxCxt,     \* limit on the length of a call string (-maxcxt)
  None

Node == Var \union Mem
Engine == {"flow", "cxt"}
CallId == Site \X Fun                 \* a CallSiteID: call site and callee
Edge == {g \in [src : Node, dst : Node, ind : BOOLEAN, guard : SUBSET Obj,
                dir : {"intra", "call", "ret"}, id : CallId \union {None}] :
           /\ g.dir # "intra" => g.id \in CallId
           /\ g.src \in IF g.ind THEN Mem ELSE Var}

(* The value-flow graph of a program, what the pre-analysis knows about it *)
(* (its points-to sets for pointers and objects, and per function entry    *)
(* and call return the function pointers that may decide the call), and    *)
(* the budgets.  An element of icalls is an indirect call of one target    *)
(* with the edges that connect it.                                         *)
Program ==
  [kind : [Node -> {"addr", "copy", "gep", "load", "store", "mr"}],
   obj : [Var -> Obj \union {None}], field : [Var -> [Obj -> Obj]],
   src : [Node -> Var \union {None}], dst : [Node -> Var \union {None}],
   edges : SUBSET Edge, icalls : SUBSET [fp : Var, target : Obj, id : CallId, edges : SUBSET Edge],
   resolves : [Node -> SUBSET Var], calls : SUBSET CallId, caller : [Site -> Fun],
   parts : [Obj -> SUBSET Obj],       \* field nodes of a base object
   local : [Obj -> Fun \union {None}], heap : SUBSET Obj, weak : SUBSET Obj, opaque : SUBSET Obj,
   ander : [Var \union Obj -> SUBSET Obj],
   queries : SUBSET Var, engine : Engine, budget : [Engine -> Nat]]

Holds(p, g) ==
  CASE p.kind[g.dst] = "gep" -> \A o \in p.ander[g.src] : p.field[g.dst][o] \in p.ander[g.dst]
    [] OTHER -> p.ander[g.src] \subseteq p.ander[g.dst]
PreAnalysed(p) ==
  /\ \A v \in Var :
       /\ p.kind[v] = "addr" => p.obj[v] \in p.ander[v]
       /\ p.kind[v] = "load" => \A o \in p.ander[p.src[v]] : p.ander[o] \subseteq p.ander[v]
  /\ \A n \in Mem : p.kind[n] = "store" =>
       \A o \in p.ander[p.dst[n]] : p.ander[p.src[n]] \subseteq p.ander[o]
  /\ LET all == p.edges \union UNION {c.edges : c \in {i \in p.icalls : i.target \in p.ander[i.fp]}}
     IN \A g \in all : ~g.ind /\ p.kind[g.dst] \in {"copy", "gep"} => Holds(p, g)

Operands(p, n) ==
  (IF p.kind[n] \in {"load", "store"} THEN {p.src[n]} ELSE {})
    \union (IF p.kind[n] = "store" THEN {p.dst[n]} ELSE {})

ASSUME NamesAssumption ==
  Var \intersect Mem = {} /\ Var \intersect Obj = {} /\ MaxCxt \in Nat /\ None \notin Obj \union Var
ASSUME ProgramAssumption ==
  \A p \in Programs :
    /\ p \in Program
    /\ \A n \in Node : n \in Mem <=> p.kind[n] \in {"store", "mr"}
    /\ \A n \in Node : Operands(p, n) \subseteq Var
    /\ \A v \in Var : p.kind[v] = "addr" => p.obj[v] \in Obj
    /\ \A c \in p.icalls : c.id \notin p.calls /\ \A d \in p.icalls : c.id = d.id => c = d
    /\ PreAnalysed(p)
-----------------------------------------------------------------------------
(* An item (DPItem) asks for the values of a variable or an object at a    *)
(* node under a call string.  Items and (context, object) pairs carry the  *)
(* flag concreteCxt, which no comparison looks at.                         *)
Cxt == {s \in Seq(CallId) : Len(s) <= MaxCxt}
Key == [loc : Node, cur : Var \union Obj, cxt : Cxt]
Item == [at : Key, conc : BOOLEAN]
CVar == [id : Obj, cxt : Cxt, conc : BOOLEAN]

SameElement(c, d) == c.id = d.id /\ c.cxt = d.cxt
UnionPts(A, B) == A \union {b \in B : \A a \in A : ~SameElement(a, b)}
Insert(S, d) == IF \E i \in S : i.at = d.at THEN S ELSE S \union {d}
Put(S, k, c) == {m \in S : m.at # k} \union {[at |-> k, var |-> c]}

-----------------------------------------------------------------------------
(* A view is what an analysis knows when it decides: the program, the      *)
(* calls in its call graph, the calls its cycle detection has seen, and    *)
(* which analysis it is.  Recursion is what the detection last saw.        *)
View(p, called, scc, e) == [prog |-> p, called |-> called, scc |-> scc, by |-> e]

CallPairs(p, S) == {<<p.caller[i[1]], i[2]>> : i \in S}
SameSCC(w, f, g) ==
  LET R(x, y) == \A S \in SUBSET Fun :
                   (x \in S /\ \A c \in CallPairs(w.prog, w.scc) : c[1] \in S => c[2] \in S) => y \in S
  IN R(f, g) /\ R(g, f)
InCycle(w, f) ==
  \/ \E g \in Fun \ {f} : SameSCC(w, f, g)
  \/ <<f, f>> \in CallPairs(w.prog, w.called)
LocalInRecursion(w, o) == w.prog.local[o] # None /\ InCycle(w, w.prog.local[o])
EdgeInRecursion(w, i) == SameSCC(w, w.prog.caller[i[1]], i[2])

(* isCondCompatible(): the call strings agree from the end.                *)
Compatible(s, t) ==
  \A k \in 0..MaxCxt : k < Len(s) /\ k < Len(t) => s[Len(s) - k] = t[Len(t) - k]

(* propagateViaObj(): do the object of a store and that of a load agree?   *)
(* Only heap objects and locals of recursive functions are told apart by   *)
(* context.                                                                *)
SameVar(w, c, d) ==
  /\ c.id = d.id
  /\ w.by = "cxt" /\ (c.id \in w.prog.heap \/ LocalInRecursion(w, c.id)) => Compatible(c.cxt, d.cxt)

(* isStrongUpdate(), isHeapCondMemObj(): FlowDDA never overwrites heap     *)
(* objects, ContextDDA does so in a concrete context.                      *)
StrongUpdate(w, pts) ==
  \E c \in pts :
    /\ \A d \in pts : SameElement(c, d)
    /\ c.id \notin w.prog.weak
    /\ c.id \in w.prog.heap => w.by = "cxt" /\ c.conc
    /\ ~LocalInRecursion(w, c.id)
-----------------------------------------------------------------------------
(* handleBKCondition(): the call string of an item that follows an edge    *)
(* backwards.                                                              *)

PopRecursive(w, s) ==
  LET keep == {k \in 1..Len(s) : \E j \in k..Len(s) : ~EdgeInRecursion(w, s[j])}
  IN SubSeq(s, 1, Cardinality(keep))
PushContextOver(s, i) ==             \* mutant: the limit is tested after the push
  IF Len(s) <= MaxCxt THEN Append(s, i) ELSE Append(Tail(s), i)
PushContext(s, i) ==
  IF Len(s) < MaxCxt THEN Append(s, i) ELSE IF s = <<>> THEN s ELSE Append(Tail(s), i)
Contains(s, i) == \E k \in DOMAIN s : s[k] = i

Plain(w, g) == w.by = "flow" \/ g.dir = "intra"
Unbalanced(w, s, g) ==
  /\ ~Plain(w, g) /\ g.dir = "call" /\ ~EdgeInRecursion(w, g.id)
  /\ s # <<>> /\ s[Len(s)] # g.id
Repeated(w, s, g) ==
  ~Plain(w, g) /\ g.dir = "ret" /\ ~EdgeInRecursion(w, g.id) /\ Contains(s, g.id)
Feasible(w, s, g) == ~Unbalanced(w, s, g) /\ ~Repeated(w, s, g)

Context(w, s, g) ==
  IF Plain(w, g) THEN s
  ELSE IF EdgeInRecursion(w, g.id) THEN PopRecursive(w, s)
  ELSE IF g.dir = "call" THEN IF s = <<>> THEN s ELSE SubSeq(s, 1, Len(s) - 1)
  ELSE PushContext(s, g.id)
Concrete(w, s, conc, g) ==
  /\ conc
  /\ ~Plain(w, g) => /\ ~EdgeInRecursion(w, g.id)
                     /\ g.dir = "ret" => Len(s) < MaxCxt \/ s = <<>>

(* processGepPts().                                                        *)
GepPts(p, n, pts) ==
  LET fields == {[c EXCEPT !.id = p.field[n][c.id]] : c \in pts}
  IN {CHOOSE d \in fields : SameElement(c, d) : c \in fields}
=============================================================================
