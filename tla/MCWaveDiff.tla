----------------------------- MODULE MCWaveDiff -----------------------------
(***************************************************************************)
(* Programs for AndersenWaveDiff, each with its least field-insensitive    *)
(* solution.                                                               *)
(***************************************************************************)
EXTENDS AndersenWaveDiff

CONSTANTS a, b, p, q, r, s, z, x, y, v, u, w, h, c, bh

MCLimit == [o \in Obj |-> IF o = u THEN 1 ELSE 2]

CopyStmt(m, n) == [kind |-> "copy", src |-> m, dst |-> n, off |-> 0]
LoadStmt(m, n) == [kind |-> "load", src |-> m, dst |-> n, off |-> 0]
StoreStmt(m, n) == [kind |-> "store", src |-> m, dst |-> n, off |-> 0]
GepStmt(m, n, k) == [kind |-> "ngep", src |-> m, dst |-> n, off |-> k]
VGepStmt(m, n) == [kind |-> "vgep", src |-> m, dst |-> n, off |-> 0]

\* One round of field-insensitive propagation, and its least fixed point.
Round(g, S) ==
  LET T(n) == S[Base(n)]
      Of(K) == {e \in g.edges : e.kind \in K}
  IN [n \in Ptr \union Obj |->
        S[n] \union {o \in Obj : <<o, n>> \in g.addr}
             \union UNION {T(e.src) : e \in {d \in Of(Direct) : Base(d.dst) = n}}
             \union UNION {UNION {T(o) : o \in T(e.src)} : e \in {d \in Of({"load"}) : Base(d.dst) = n}}
             \union UNION {T(e.src) : e \in {d \in Of({"store"}) : n \in T(d.dst)}}
             \union UNION {T(f[1]) : f \in {d \in UNION {i.flow : i \in {j \in g.icalls : j.fun \in T(j.fp)}} : d[2] = n}}]
RECURSIVE Least(_, _)
Least(g, S) == LET T == Round(g, S) IN IF T = S THEN S ELSE Least(g, T)

Prog(addr, stmts, icalls) ==
  LET g == [addr |-> addr, edges |-> stmts, icalls |-> icalls]
  IN [addr |-> addr, edges |-> stmts, icalls |-> icalls,
      bound |-> Least(g, [n \in Ptr \union Obj |-> {}])]

-----------------------------------------------------------------------------
(* Programs that drive every action.  The names say what they are about.   *)

\* x has its first field, in one cycle with s, before a normal gep of offset 0
\* reaches it: the field comes from wrapping around x.  r and b are used twice to
\* keep the program small.
LateField ==
  Prog({<<x, p>>, <<v, r>>, <<y, b>>},
       {GepStmt(p, q, 1), GepStmt(q, z, 1), LoadStmt(z, s), StoreStmt(s, z), CopyStmt(s, b),
        StoreStmt(r, p), StoreStmt(p, b), LoadStmt(b, a), GepStmt(a, r, 0)}, {})

\* w is collapsed after a load has skipped its field, which holds no pointer.
LateCollapse ==
  Prog({<<w, p>>, <<y, r>>},
       {GepStmt(p, b, 1), LoadStmt(b, s), StoreStmt(p, r), LoadStmt(r, a), VGepStmt(a, q)}, {})

\* a and b get into one cycle with x only in the post phase in which a alone
\* receives v.
LateCycle ==
  Prog({<<x, p>>, <<y, q>>, <<y, s>>, <<v, r>>},
       {CopyStmt(a, b), StoreStmt(b, p), LoadStmt(p, a), StoreStmt(r, s), LoadStmt(q, a),
        StoreStmt(r, r), LoadStmt(b, z)}, {})

\* The same for a store, with fewer statements.
StoreCycle == Prog({<<x, a>>, <<y, b>>}, {CopyStmt(a, b), LoadStmt(a, a), StoreStmt(b, a)}, {})

\* Geps of one pointer into two members of one cycle, and a copy out of it.
TwoGeps ==
  Prog({<<x, p>>},
       {CopyStmt(a, b), CopyStmt(b, a), GepStmt(p, a, 0), GepStmt(p, b, 1), CopyStmt(b, q)}, {})

\* Copies in a row, and a pointer that gets its pointees in two rounds.
Chain ==
  Prog({<<x, a>>, <<y, p>>, <<v, s>>},
       {CopyStmt(a, b), CopyStmt(b, q), StoreStmt(p, q), LoadStmt(q, s), LoadStmt(s, z),
        StoreStmt(a, s)}, {})

WalkFields ==
  Prog({<<x, a>>, <<y, p>>},
       {CopyStmt(a, b), GepStmt(b, a, 1), StoreStmt(p, a), LoadStmt(b, q)}, {})

CollapseUsedFields ==
  Prog({<<x, a>>, <<y, p>>, <<v, r>>},
       {GepStmt(a, b, 1), StoreStmt(p, b), GepStmt(a, q, 0), StoreStmt(r, q), VGepStmt(a, z),
        LoadStmt(z, s)}, {})

CollapseThenStore ==
  Prog({<<x, a>>, <<y, p>>, <<v, r>>},
       {StoreStmt(a, p), LoadStmt(p, b), GepStmt(b, q, 1), StoreStmt(r, q), VGepStmt(q, z),
        LoadStmt(a, s)}, {})

\* x joins the cycle that walks over its own fields.
WalkSelf ==
  Prog({<<x, a>>, <<y, p>>, <<v, r>>},
       {StoreStmt(b, a), LoadStmt(a, q), GepStmt(q, b, 1), CopyStmt(r, b), CopyStmt(a, b),
        GepStmt(a, z, 1)}, {})

\* One object of each kind: constant, single field (u), heap, black hole, and w
\* with a second field that holds no pointer.
Kinds ==
  Prog({<<c, a>>, <<u, a>>, <<h, a>>, <<bh, a>>, <<w, p>>, <<u, s>>},
       {GepStmt(a, b, 1), CopyStmt(b, a), VGepStmt(b, q), StoreStmt(p, b), LoadStmt(q, s)}, {})

\* A heap object among field-sensitive ones, reached by a normal gep.
Heap ==
  Prog({<<h, a>>, <<w, a>>, <<u, p>>},
       {GepStmt(a, b, 1), StoreStmt(a, b), LoadStmt(a, q), CopyStmt(q, p), LoadStmt(p, s)}, {})

\* The field of u has a node before u becomes field-insensitive.
OneField ==
  Prog({<<u, a>>, <<y, p>>},
       {GepStmt(a, b, 0), VGepStmt(a, q), StoreStmt(p, b), LoadStmt(q, s)}, {})

\* x is called through b once b has loaded it, and its result is called again.
Calls ==
  Prog({<<x, a>>, <<y, p>>, <<v, r>>}, {StoreStmt(a, p), LoadStmt(p, b)},
       {[fp |-> b, fun |-> x, flow |-> {<<r, q>>, <<q, z>>}],
        [fp |-> z, fun |-> v, flow |-> {<<a, s>>}]})
MoreCalls ==
  Prog({<<x, a>>, <<v, a>>, <<y, p>>}, {CopyStmt(a, b)},
       {[fp |-> t, fun |-> f, flow |-> {<<p, q>>}] : t \in {a, b}, f \in {x, v}})

MCPrograms ==
  {LateField, LateCollapse, LateCycle, StoreCycle, TwoGeps, Chain, WalkFields, CollapseUsedFields,
   CollapseThenStore, WalkSelf, Kinds, Heap, OneField, Calls, MoreCalls}

MCNonPointer == {<<w, 1>>}

MCLateField == {LateField}
MCLateCycle == {LateCycle}
MCStoreCycle == {StoreCycle}
MCTwoGeps == {TwoGeps}
=============================================================================
