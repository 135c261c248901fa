---------------------------- MODULE MCWaveFamily ----------------------------
EXTENDS MCWaveDiff

(* Every program of at most MaxStmts statements over the pointers and      *)
(* objects of the instance, for each of two sets of address-of statements. *)
MaxStmts == 3
Distinct == {d \in {a, b} \X {a, b} : d[1] # d[2]}
Stmt ==
  {CopyStmt(d[1], d[2]) : d \in Distinct} \union {VGepStmt(d[1], d[2]) : d \in Distinct}
  \union {GepStmt(d[1], d[2], i) : d \in Distinct, i \in 0..1}
  \union {LoadStmt(m, n) : m, n \in {a, b}} \union {StoreStmt(m, n) : m, n \in {a, b}}
\* An SSA name is the target of one gep: no two between the same pointers.
OneEach(S) == \A e, f \in S : e.kind = f.kind /\ e.src = f.src /\ e.dst = f.dst => e = f
UpTo[n \in 1..MaxStmts] ==
  IF n = 1 THEN {{e} : e \in Stmt}
  ELSE {S \in {T \union {e} : T \in UpTo[n - 1], e \in Stmt} : OneEach(S)}
MCFamily ==
  UNION {{Prog(addr, S, {}) : S \in UpTo[MaxStmts]} :
           addr \in {{<<x, a>>, <<y, b>>}, {<<x, a>>, <<y, a>>}}}
MCAll == MCPrograms \union MCFamily
=============================================================================
