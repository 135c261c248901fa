---------------------------- MODULE MCValueFlow ----------------------------
(* Programs as value-flow graphs, named for what they are about.           *)
EXTENDS ValueFlow, TLC

MCVar == {"p", "q", "r", "s", "t", "u", "v", "f"}
MCMem == {"m1", "m2", "m3"}
MCObj == {"a", "b", "c", "g1", "h1"}
MCFun == {"main", "g", "h", "k"}
MCSite == {"s1", "s2", "s3"}
-----------------------------------------------------------------------------
(* Building blocks.                                                        *)
Fill(f, S, d) == [x \in S |-> IF x \in DOMAIN f THEN f[x] ELSE d]
Direct(s, d) == [src |-> s, dst |-> d, ind |-> FALSE, guard |-> {}, dir |-> "intra", id |-> None]
Indirect(s, d, G) == [src |-> s, dst |-> d, ind |-> TRUE, guard |-> G, dir |-> "intra", id |-> None]
Across(g, way, i) == [g EXCEPT !.dir = way, !.id = i]
Edges(pairs) == {Direct(x[1], x[2]) : x \in pairs}
Mems(triples) == {Indirect(x[1], x[2], x[3]) : x \in triples}
Calls(pairs, i) == {Across(Direct(x[1], x[2]), "call", i) : x \in pairs}
Rets(pairs, i) == {Across(Direct(x[1], x[2]), "ret", i) : x \in pairs}
ICall(fp, o, i, E) == [fp |-> fp, target |-> o, id |-> i, edges |-> E]
G1 == <<"s1", "g">>
G2 == <<"s2", "g">>
H1 == <<"s1", "h">>

Empty ==
  [kind |-> Fill(<<>>, MCVar, "copy") @@ Fill(<<>>, MCMem, "mr"),
   obj |-> Fill(<<>>, MCVar, None), field |-> [v \in MCVar |-> [o \in MCObj |-> o]],
   src |-> Fill(<<>>, MCVar \union MCMem, None), dst |-> Fill(<<>>, MCVar \union MCMem, None),
   edges |-> {}, icalls |-> {}, resolves |-> Fill(<<>>, MCVar \union MCMem, {}),
   parts |-> Fill(<<>>, MCObj, {}), calls |-> {}, caller |-> [x \in MCSite |-> "main"],
   local |-> Fill(<<>>, MCObj, None), heap |-> {}, weak |-> {}, opaque |-> {},
   ander |-> Fill(<<>>, MCVar \union MCObj, {}), queries |-> {}, engine |-> "flow",
   budget |-> [e \in {"flow", "cxt"} |-> 99]]

\* p extended by addresses v :> o, loads v :> src and stores m :> <<dst, src>>
Statements(p, addrs, loads, stores, E) ==
  [p EXCEPT
     !.kind = [n \in DOMAIN addrs |-> "addr"] @@ [n \in DOMAIN loads |-> "load"]
                @@ [n \in DOMAIN stores |-> "store"] @@ @,
     !.obj = addrs @@ @,
     !.src = loads @@ [n \in DOMAIN stores |-> stores[n][2]] @@ @,
     !.dst = [n \in DOMAIN stores |-> stores[n][1]] @@ @,
     !.edges = E \union {Direct(loads[n], n) : n \in DOMAIN loads}
                 \union UNION {Edges({<<stores[n][1], n>>, <<stores[n][2], n>>}) : n \in DOMAIN stores}]

(* What the pre-analysis computes: the least solution of PreAnalysed.      *)
RECURSIVE Andersen(_)
Andersen(p) ==
  LET all == p.edges \union UNION {c.edges : c \in {i \in p.icalls : i.target \in p.ander[i.fp]}}
      A == p.ander
      next == [x \in MCVar \union MCObj |-> A[x] \union
        IF x \in MCVar
        THEN CASE p.kind[x] = "addr" -> {p.obj[x]}
               [] p.kind[x] = "load" -> UNION {A[o] : o \in A[p.src[x]]}
               [] p.kind[x] = "gep" ->
                    {p.field[x][o] : o \in UNION {A[g.src] : g \in {y \in all : y.dst = x /\ ~y.ind}}}
               [] OTHER -> UNION {A[g.src] : g \in {y \in all : y.dst = x /\ ~y.ind}}
        ELSE UNION {A[p.src[n]] : n \in {m \in MCMem : p.kind[m] = "store" /\ x \in A[p.dst[m]]}}]
  IN IF next = A THEN p ELSE Andersen([p EXCEPT !.ander = next])
-----------------------------------------------------------------------------
(* The programs.                                                           *)

\* q and r are copies of each other
Cycle == Statements(Empty, "p" :> "a" @@ "s" :> "b", <<>>, <<>>,
                    Edges({<<"p", "q">>, <<"r", "q">>, <<"q", "r">>, <<"s", "r">>}))

\* a loop whose store turns weak when its own value comes round
Grow == Statements(Empty, "p" :> "a" @@ "t" :> "b", "r" :> "p" @@ "u" :> "p",
                   "m1" :> <<"p", "p">> @@ "m3" :> <<"r", "t">>,
                   Mems({<<"m1", "m2", {"a"}>>, <<"m3", "m2", {"a", "b"}>>, <<"m2", "m3", {"a", "b"}>>,
                         <<"m2", "r", {"a"}>>, <<"m3", "u", {"a"}>>}))

\* the same loop with any of three pointers at each place
Loop(x, y, x3, y3, x4) ==
  Statements(Empty, "p" :> "a" @@ "t" :> "b", "r" :> x @@ "u" :> x4,
             "m1" :> <<"p", y>> @@ "m3" :> <<x3, y3>>,
             Mems({<<"m1", "m2", {"a", "b"}>>, <<"m3", "m2", {"a", "b"}>>, <<"m2", "m3", {"a", "b"}>>,
                   <<"m2", "r", {"a", "b"}>>, <<"m3", "u", {"a", "b"}>>}))
Loops == {Loop("p", y, x3, y3, x4) : y, x3 \in {"p", "t", "r"}, x4 \in {"p", "r"}, y3 \in {"p", "t", "r", "u"}}

\* two stores one after another: the second overwrites the first
Overwrite == Statements(Empty, "p" :> "a" @@ "s" :> "b" @@ "t" :> "c", "u" :> "p" @@ "v" :> "q",
                   "m1" :> <<"p", "s">> @@ "m2" :> <<"q", "t">>,
                   Edges({<<"p", "q">>}) \union
                   Mems({<<"m1", "m2", {"a"}>>, <<"m2", "u", {"a"}>>, <<"m1", "v", {"a"}>>}))

\* q moves round the two fields a and c of one object
Fields == [Statements(Empty, "p" :> "a" @@ "s" :> "b", "u" :> "q", "m1" :> <<"r", "s">>,
                   Edges({<<"p", "q">>, <<"r", "q">>, <<"q", "r">>})
                     \union Mems({<<"m1", "u", {"a", "c"}>>}))
           EXCEPT !.kind["r"] = "gep", !.field["r"] = "a" :> "c" @@ "c" :> "a" @@ @]

\* the function that is called returns the next function to call
CallByCall == [Statements(Empty, "v" :> "g1" @@ "r" :> "h1" @@ "u" :> "b", <<>>, <<>>,
                   Edges({<<"v", "f">>, <<"t", "f">>}))
               EXCEPT !.icalls = {ICall("f", "g1", G1, Rets({<<"r", "t">>}, G1)),
                                  ICall("f", "h1", H1, Rets({<<"u", "t">>}, H1))},
                      !.resolves["t"] = {"f"}]

\* g(q) returns q; called at two sites
Identity == [Statements(Empty, "p" :> "a" @@ "s" :> "b", <<>>, <<>>,
                   Calls({<<"p", "q">>}, G1) \union Calls({<<"s", "q">>}, G2)
                     \union Rets({<<"q", "t">>}, G1) \union Rets({<<"q", "u">>}, G2))
             EXCEPT !.calls = {G1, G2}]

\* g() returns new a; called at two sites, each stores to its own
Allocate == [Statements(Empty, "r" :> "a" @@ "p" :> "b" @@ "s" :> "c", "v" :> "t",
                   "m1" :> <<"t", "p">> @@ "m2" :> <<"u", "s">>,
                   Rets({<<"r", "t">>}, G1) \union Rets({<<"r", "u">>}, G2)
                     \union Mems({<<"m1", "m2", {"a"}>>, <<"m2", "v", {"a"}>>}))
             EXCEPT !.calls = {G1, G2}, !.heap = {"a"}]

\* g(q) calls itself with r = q and has a local b
Recursive == [Statements(Empty, "p" :> "a" @@ "v" :> "b" @@ "s" :> "c", "t" :> "v",
                   "m1" :> <<"v", "q">> @@ "m2" :> <<"v", "s">>,
                   Calls({<<"p", "q">>}, G1) \union Calls({<<"r", "q">>}, G2)
                     \union Edges({<<"q", "r">>, <<"t", "r">>}) \union Rets({<<"t", "u">>}, G1)
                     \union Mems({<<"m1", "m2", {"b"}>>, <<"m2", "t", {"b"}>>}))
              EXCEPT !.calls = {G1, G2}, !.caller["s2"] = "g", !.local["b"] = "g"]

\* w points to what g() has allocated at either of two sites
TwoObjects == [Statements(Empty, "r" :> "a" @@ "p" :> "b" @@ "s" :> "c", "v" :> "q",
                   "m1" :> <<"t", "p">> @@ "m2" :> <<"u", "s">>,
                   Rets({<<"r", "t">>}, G1) \union Rets({<<"r", "u">>}, G2)
                     \union Edges({<<"t", "q">>, <<"u", "q">>})
                     \union Mems({<<"m1", "m2", {"a"}>>, <<"m2", "v", {"a"}>>}))
               EXCEPT !.calls = {G1, G2}, !.heap = {"a"}]

\* main calls h at two sites; h returns what g allocates for it at s2
H3 == <<"s3", "h">>
K3 == <<"s3", "k">>
\* k() returns new a through g and h: one call more than a call string holds
Deep == [Statements(Empty, "p" :> "a" @@ "s" :> "b" @@ "f" :> "c", "v" :> "t",
                   "m1" :> <<"t", "s">> @@ "m2" :> <<"t", "f">>,
                   Rets({<<"p", "q">>}, K3) \union Rets({<<"q", "u">>}, G2) \union Rets({<<"u", "t">>}, H1)
                     \union Mems({<<"m1", "m2", {"a"}>>, <<"m2", "v", {"a"}>>}))
         EXCEPT !.calls = {H1, G2, K3}, !.caller["s2"] = "h", !.caller["s3"] = "g", !.heap = {"a"}]
Truncated == [Statements(Empty, "r" :> "a" @@ "p" :> "b" @@ "s" :> "c", "v" :> "t",
                   "m1" :> <<"t", "p">> @@ "m2" :> <<"u", "s">>,
                   Rets({<<"r", "q">>}, G2) \union Rets({<<"q", "t">>}, H1) \union Rets({<<"q", "u">>}, H3)
                     \union Mems({<<"m1", "m2", {"a"}>>, <<"m2", "v", {"a"}>>}))
               EXCEPT !.calls = {G2, H1, H3}, !.caller["s2"] = "h", !.heap = {"a"}]
=============================================================================
