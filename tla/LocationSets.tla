---------------------------- MODULE LocationSets ----------------------------
(***************************************************************************)
(* The field nodes of one object: how the byte offsets and field indices   *)
(* of getelementptr instructions add up to a node (LocationSet, PAG::      *)
(* getGepObjNode), and which type the detector then takes the object to    *)
(* have at that node (GetAbstractObjectType).                              *)
(*                                                                         *)
(* Field nodes are shared: the map that holds them compares location sets  *)
(* by field index only, so the byte offset and the base type of a node are *)
(* those of the pointer that was there first.  A walk follows one pointer  *)
(* of the program; Restart begins another one, over the nodes made so far. *)
(***************************************************************************)
EXTENDS Integers, Sequences, FiniteSets, Functions, FiniteSetsExt, SequencesExt

CONSTANTS
  Struct,     \* struct types
  Elem,       \* Elem[t]: the elements of t, records [off, ty, num]; num = 0: no array
  Size,       \* Size[t] in bytes
  Objects,    \* the objects: records [ty, count], an array if count > 1
  Steps       \* pointer arithmetic of the program: p + n for n \in Steps

Word == "word"      \* any type that is no struct, of WordSize bytes
WordSize == 4
Null == "null"
FI == -1            \* the object's own node, its field nodes being their indices
None == -2          \* no node yet

Count(e) == Max({1, e.num})
SizeOf(t) == IF t = Word THEN WordSize ELSE Size[t]

ASSUME LayoutAssumption ==
  /\ Word \notin Struct /\ Null \notin Struct
  /\ \A t \in Struct : \A i \in DOMAIN Elem[t] :
       /\ Elem[t][i].ty \in Struct \union {Word}
       /\ Elem[t][i].off + Count(Elem[t][i]) * SizeOf(Elem[t][i].ty)
            <= IF i = Len(Elem[t]) THEN Size[t] ELSE Elem[t][i + 1].off
  /\ Steps \subseteq Int \ {0}
-----------------------------------------------------------------------------
(* Layouts.                                                                *)

(* collectStructInfo(), collectArrayInfo(): the flattened fields of a      *)
(* struct, each with its byte offset and its number-stride pairs.  A field *)
(* of an element carries the pairs it has there.                           *)
Flat ==
  LET Array(e) == IF e.num = 0 THEN {} ELSE {<<e.num, SizeOf(e.ty)>>}
      Moved(e, sub) == [j \in DOMAIN sub |-> [off |-> e.off + sub[j].off,
                                              pairs |-> sub[j].pairs \union Array(e)]]
      Fields[t \in Struct \union {Word}] ==
        IF t = Word THEN <<[off |-> 0, pairs |-> {<<1, 0>>}]>>
        ELSE FlattenSeq([i \in DOMAIN Elem[t] |-> Moved(Elem[t][i], Fields[Elem[t][i].ty])])
  IN [t \in Struct |-> Fields[t]]

\* getFattenFieldIdxVec(): the index of an element's first flattened field.
FirstField(t, i) ==
  Cardinality({j \in DOMAIN Flat[t] : Flat[t][j].off < Elem[t][i].off})

(* getFldIdxViaByteOffset(): the first field with a pair that reaches the  *)
(* offset, -1 if there is none.                                            *)
FldIdxViaByteOffset(t, b) ==
  LET Hit == {j \in DOMAIN Flat[t] : \E p \in Flat[t][j].pairs : \E n \in 0..p[1] - 1 :
                                        Flat[t][j].off + n * p[2] = b}
  IN IF Hit = {} THEN -1 ELSE Min(Hit) - 1

(* getSubStructByBytes(): the struct at an offset, Null if there is none;  *)
(* t itself if the offset is negative or a multiple of its size.           *)
SubStructByBytes(t, b) ==
  LET Sub[s \in Struct, c \in Nat] ==
        LET o == c % Size[s]
            e == Elem[s][Max({i \in DOMAIN Elem[s] : Elem[s][i].off <= o})]
        IN CASE o = 0 -> s
             [] o # 0 /\ e.ty = Word -> Null
             [] o # 0 /\ e.ty # Word /\ e.off = o -> e.ty
             [] OTHER -> Sub[e.ty, o - e.off]
  IN IF b < 0 THEN t ELSE Sub[t, b]

-----------------------------------------------------------------------------
(* Location sets: [idx, byte, base, minus].                                *)

LS(i, b, t, m) == [idx |-> i, byte |-> b, base |-> t, minus |-> m]

\* The index operator+ starts from lies beyond the fields of the base type.
Overrun(l) == l.base # Null /\ l.idx >= Len(Flat[l.base])

\* mutant: the sum has the base type of the second operand
PlusOtherBase(l, r) == {LS(l.idx + r.idx, l.byte + r.byte, r.base, l.minus + r.minus)}
\* mutant: the index is never recomputed from the bytes
PlusUnadjusted(l, r) == {LS(l.idx + r.idx, l.byte + r.byte, l.base, l.minus + r.minus)}
\* mutant: bytes do not add up
PlusLastBytes(l, r) == {LS(l.idx + r.idx, r.byte, l.base, l.minus + r.minus)}

(* operator+: offsets and indices add up; where a negative offset is       *)
(* involved the index is looked up again by the byte it comes to.  In an   *)
(* overrun fieldInfo[fldIdx] reads past the vector: any index may result.  *)
Plus(l, r) ==
  LET sum == l.idx + r.idx
      sized == Flat[l.base][l.idx + 1].off + r.byte
      found == FldIdxViaByteOffset(l.base, sized % Size[l.base])
      index == CASE l.base = Null -> {sum}
                 [] Overrun(l) -> {sum} \union 0..Len(Flat[l.base]) - 1
                 [] OTHER -> {IF sized >= 0 /\ (r.byte < 0 \/ l.byte < 0) /\ found >= 0
                              THEN found ELSE sum}
  IN {LS(i, l.byte + r.byte, l.base, l.minus + r.minus) : i \in index}

(* computeGepOffset(): the location set of a gep with constant operands on *)
(* a pointer to t that comes to b bytes, f the sum of its struct indices.  *)
GepOffset(t, b, f) ==
  IF b < 0 THEN LS(f, b, Null, b)
  ELSE LS(Max({0, FldIdxViaByteOffset(t, b % Size[t])}), b, t, 0)

NoGep == LS(0, 0, "no gep", 0)   \* of a pointer that is not the result of a gep

-----------------------------------------------------------------------------
VARIABLES
  obj,      \* the object
  nodes,    \* its field nodes: index -> the location set it was created with
  ptr,      \* a pointer of the program, see Pointer
  wildNodes, \* history: the nodes created for a wild pointer
  mishap     \* history: what has gone wrong so far

vars == <<obj, nodes, ptr, wildNodes, mishap>>

(* at is the byte in the object that the pointer holds at run time, wild   *)
(* that it came from a cast to a type the object does not have there.      *)
(* gep is the pointer's incoming gep edge, src the node of that edge's     *)
(* base pointer, node the pointer's own node once the edge was solved.     *)
(* copied says that the result of the gep is used through a bitcast only.  *)
GepPointer(ty, at, src, gep) ==
  [ty |-> ty, at |-> at, src |-> src, gep |-> gep, node |-> None, copied |-> FALSE, wild |-> FALSE]
CopyPointer(ty, at, node) ==
  [ty |-> ty, at |-> at, src |-> node, gep |-> NoGep, node |-> node, copied |-> FALSE, wild |-> FALSE]
Root == CopyPointer(obj.ty, 0, FI)

Init ==
  /\ obj \in Objects
  /\ nodes = <<>>
  /\ ptr = Root
  /\ wildNodes = {} /\ mishap = {}

-----------------------------------------------------------------------------
(* What the program may do.                                                *)

(* The parts of a t in memory: [off, ty, array, field] for each struct and  *)
(* scalar in it, with the index of the flattened field it begins with; off *)
(* \in array for the elements of one array.                                *)
Parts ==
  LET Starts(e) == {e.off + n * SizeOf(e.ty) : n \in 0..Count(e) - 1}
      In[t \in Struct \union {Word}] ==
        {[off |-> 0, ty |-> t, array |-> {0}, field |-> 0]}
        \union
        (IF t = Word THEN {}
         ELSE UNION {LET e == Elem[t][i] IN
                {[off |-> s + p.off, ty |-> p.ty, field |-> FirstField(t, i) + p.field,
                  array |-> IF p.ty = e.ty THEN Starts(e) ELSE {s + b : b \in p.array}] :
                   s \in Starts(e), p \in In[e.ty]} : i \in DOMAIN Elem[t]})
  IN [t \in Struct |-> In[t]]
Holds(b, t) ==
  /\ b \in 0..obj.count * Size[obj.ty] - 1
  /\ \E p \in Parts[obj.ty] : p.off = b % Size[obj.ty] /\ p.ty = t
SameArray(t, b, b2) ==
  \/ t = obj.ty /\ {b, b2} \subseteq {n * Size[t] : n \in 0..obj.count - 1}
  \/ /\ b \div Size[obj.ty] = b2 \div Size[obj.ty]
     /\ \E p \in Parts[obj.ty] :
          p.ty = t /\ {b % Size[obj.ty], b2 % Size[obj.ty]} \subseteq p.array

-----------------------------------------------------------------------------
(* addNormalGepEdge(), getLocationSetFromBaseNode(): a gep of a gep is one *)
(* edge from the first base pointer, with the sum of the two.              *)
AddNormalGepEdge(ty, at, ls) ==
  LET base == IF ptr.gep = NoGep THEN LS(0, 0, ptr.ty, 0) ELSE ptr.gep
      src == IF ptr.gep = NoGep THEN ptr.node ELSE ptr.src
  IN /\ \E sum \in Plus(base, ls) : ptr' = GepPointer(ty, at, src, sum)
     /\ UNCHANGED <<obj, nodes, wildNodes, mishap>>

Usable == ptr.ty # Word /\ ~ptr.wild /\ (ptr.copied => ptr.node # None)

(* &p[n].e or &p[n].e[j]: a gep through a pointer to a struct.             *)
Field(n) ==
  /\ Usable
  /\ n # 0 => SameArray(ptr.ty, ptr.at, ptr.at + n * Size[ptr.ty])
  /\ \E i \in DOMAIN Elem[ptr.ty] : \E j \in 0..Count(Elem[ptr.ty][i]) - 1 :
       LET e == Elem[ptr.ty][i]
           b == n * Size[ptr.ty] + e.off + j * SizeOf(e.ty)
       IN AddNormalGepEdge(e.ty, ptr.at + b, GepOffset(ptr.ty, b, FirstField(ptr.ty, i)))

(* p + n.                                                                  *)
Step(n) ==
  /\ Usable /\ SameArray(ptr.ty, ptr.at, ptr.at + n * Size[ptr.ty])
  /\ AddNormalGepEdge(ptr.ty, ptr.at + n * Size[ptr.ty], GepOffset(ptr.ty, n * Size[ptr.ty], 0))

(* A cast to the type of the first element is a bitcast.                   *)
CastToFirst ==
  /\ Usable /\ ptr.node # None /\ Elem[ptr.ty][1].ty # Word /\ Elem[ptr.ty][1].num = 0
  /\ ptr' = CopyPointer(Elem[ptr.ty][1].ty, ptr.at, ptr.node)
  /\ UNCHANGED <<obj, nodes, wildNodes, mishap>>

(* static_cast<T*>(p) where element i of T has p's type: a bitcast, or a   *)
(* gep of a negative number of bytes on a bitcast to i8* of p.             *)
DownCast(t) ==
  /\ Usable /\ ptr.node # None
  /\ \E e \in {d \in Range(Elem[t]) : d.ty = ptr.ty /\ d.num = 0} :
       LET wild == ~Holds(ptr.at - e.off, t)
       IN IF e.off = 0
          THEN ptr' = [CopyPointer(t, ptr.at, ptr.node) EXCEPT !.wild = wild]
          ELSE \E sum \in Plus(LS(0, 0, ptr.ty, 0), GepOffset(ptr.ty, -e.off, 0)) :
                 ptr' = [GepPointer(t, ptr.at - e.off, ptr.node, sum)
                           EXCEPT !.copied = TRUE, !.wild = wild]
  /\ UNCHANGED <<obj, nodes, wildNodes, mishap>>

\* What can go wrong with a node: an overrun on the way to it; it was made for a
\* wild pointer; its negative offset is not that of the cast that is judged by it.
NotItsOwn == "other negative offset"
If(c, what) == IF c THEN {what} ELSE {}

(* getGepObjNode(), getModulusOffset(), addGepObjNode(): the solver finds  *)
(* or creates the node at the end of a gep edge.                           *)
GetGepObjNode ==
  /\ ptr.node = None
  /\ \E sum \in IF ptr.src = FI THEN {ptr.gep} ELSE Plus(nodes[ptr.src], ptr.gep) :
       LET ls == [sum EXCEPT !.idx = @ % Len(Flat[obj.ty])]
       IN /\ ptr' = IF ptr.copied
                    THEN [CopyPointer(ptr.ty, ptr.at, ls.idx) EXCEPT !.wild = ptr.wild]
                    ELSE [ptr EXCEPT !.node = ls.idx]
          /\ nodes' = nodes @@ (ls.idx :> ls)
          /\ wildNodes' = IF ptr.wild /\ ls.idx \notin DOMAIN nodes
                          THEN wildNodes \union {ls.idx} ELSE wildNodes
          /\ mishap' = mishap
               \union If(ptr.src # FI /\ Overrun(nodes[ptr.src]), "overrun")
               \union If({ptr.src, ls.idx} \intersect wildNodes # {}, "wild node shared")
               \union If(ptr.wild /\ nodes'[ls.idx].minus \notin {0, ptr.gep.minus}, NotItsOwn)
  /\ UNCHANGED obj

\* The program goes on with another pointer.
Restart ==
  /\ ptr # Root /\ ptr.node # None
  /\ ptr' = Root
  /\ UNCHANGED <<obj, nodes, wildNodes, mishap>>

Next ==
  \/ \E n \in Steps \union {0} : Field(n)
  \/ \E n \in Steps : Step(n)
  \/ CastToFirst
  \/ \E t \in Struct : DownCast(t)
  \/ GetGepObjNode
  \/ Restart

Spec == Init /\ [][Next]_vars
-----------------------------------------------------------------------------
(* What the detector makes of a pointer.                                   *)

\* mutant: where the bytes lead to no struct, the object's own type counts
AbstractTypeOrObject(node) ==
  LET sub == SubStructByBytes(obj.ty, nodes[node].byte)
  IN IF node = FI \/ sub = Null THEN obj.ty ELSE sub

(* GetAbstractObjectType(): the struct at the byte offset of the node; if  *)
(* there is none, at the offset before negative offsets were added.        *)
AbstractType(node) ==
  IF node = FI THEN obj.ty
  ELSE LET ls == nodes[node]
           before == ls.byte - ls.minus
           sub == IF ls.base = Null THEN Null ELSE SubStructByBytes(obj.ty, ls.byte)
       IN IF ls.base # Null /\ sub = Null /\ ls.minus < 0 /\ before >= 0
          THEN SubStructByBytes(obj.ty, before) ELSE sub

\* IsContained(): t is actual or a struct inside it; arrays are not looked into.
Contained ==
  LET In[t \in Struct] ==
        {t} \union UNION {In[e.ty] : e \in {d \in Range(Elem[t]) : d.ty # Word /\ d.num = 0}}
  IN [t \in Struct |-> In[t]]
\* IsBadCast(): the structs at offset 0 of actual, arrays stripped.
FirstChain ==
  LET Down[t \in Struct] == {t} \union IF Elem[t][1].ty = Word THEN {} ELSE Down[Elem[t][1].ty]
  IN [t \in Struct |-> Down[t]]
NoBadType(t, actual) == \E s \in FirstChain[actual] : t \in Contained[s]

-----------------------------------------------------------------------------
Solved == ptr.node # None
Index == IF ptr.node = FI THEN 0 ELSE ptr.node

(* A node is filed under its own index, which is one of the object, and    *)
(* has a base type, without which the detector could not judge it.         *)
TypeOK ==
  /\ obj \in Objects /\ wildNodes \subseteq DOMAIN nodes
  /\ DOMAIN nodes \subseteq 0..Len(Flat[obj.ty]) - 1
  /\ \A i \in DOMAIN nodes : nodes[i].idx = i /\ nodes[i].base \in Struct
  /\ ptr.node \in DOMAIN nodes \union {FI, None} /\ ptr.src \in DOMAIN nodes \union {FI}

Judgeable == Solved /\ ptr.ty # Word /\ AbstractType(ptr.node) # Null
AtField ==
  \E m \in Parts[obj.ty] : m.off = ptr.at % Size[obj.ty] /\ m.ty = ptr.ty /\ m.field = Index

Excused(what) == mishap \subseteq what

(* Whatever the way of fields, casts and steps by which a pointer got      *)
(* where it is, getGepObjNode() gives it the node of the field it points   *)
(* to, even if wild pointers have nodes of their own.                      *)
FieldRight == Excused({NotItsOwn}) /\ Solved /\ ~ptr.wild => AtField

(* IsBadCast() finds no fault with the type of the node of a pointer that  *)
(* has only been cast to types the object has there.                       *)
NoFalseAlarm ==
  Excused({NotItsOwn}) /\ Judgeable /\ ~ptr.wild => NoBadType(ptr.ty, AbstractType(ptr.node))

(* IsBadCast() finds every cast to a type the object does not have there,  *)
(* if the negative offset of the node, which GetAbstractObjectType() takes *)
(* back, is that of the cast.                                              *)
WrongCastSeen ==
  Excused({}) /\ Judgeable /\ ptr.wild => ~NoBadType(ptr.ty, AbstractType(ptr.node))

(* The same whatever negative offset the node has: TCD.cpp says of a       *)
(* down-cast error "To report it, we consider the minus offset".           *)
EveryWrongCastSeen ==
  Excused({NotItsOwn}) /\ Judgeable /\ ptr.wild => ~NoBadType(ptr.ty, AbstractType(ptr.node))
=============================================================================
