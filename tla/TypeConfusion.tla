--------------------------- MODULE TypeConfusion ---------------------------
(***************************************************************************)
(* The type confusion detector (lib/TCD/TCD.cpp) as a pass runs it         *)
(* (WPAPass::runPointerAnalysis(), DDAPass::runPointerAnalysis()).  The    *)
(* pass runs the selected pointer analyses one after another; after each,  *)
(* one static collector judges every C++ cast by the types of the objects  *)
(* the cast pointer may point to, and reports.  The collector, and with it *)
(* the statistics of all earlier analyses, lives as long as the program.   *)
(***************************************************************************)
EXTENDS Naturals, Sequences, FiniteSets

CONSTANTS
  Struct,       \* struct types
  Fields,       \* per struct type the sequence of its element types
  BaseOf,       \* the struct type named "<name>.base", if there is one
  CastCall,     \* calls of the cast stubs in the module
  Kind, Dst,    \* per cast its kind and its destination struct type
  TopLevel,     \* casts whose pointer is a valid top-level pointer
  Object,       \* abstract objects
  Type,         \* per object the struct type at its offset, if known
  VTable,       \* objects that are C++ virtual tables
  Solutions,    \* the points-to results a run of the pass may produce
  None

(* An element is a struct, an array of structs, or has no struct in it.    *)
Element == [struct : Struct \union {None}, array : BOOLEAN]
CastKind == {"static", "dynamic", "reinterpret"}

(* The command line options the detector reads.                            *)
Option == [detectDynamic : BOOLEAN, detectReinterpret : BOOLEAN, conservative : BOOLEAN]

(* Per selected analysis, in order, the points-to set of each cast.        *)
Solution == Seq([CastCall -> SUBSET Object])

ASSUME TypeAssumption ==
  /\ Fields \in [Struct -> Seq(Element)] /\ BaseOf \in [Struct -> Struct \union {None}]
  /\ None \notin Struct
ASSUME CastAssumption ==
  /\ Kind \in [CastCall -> CastKind] /\ Dst \in [CastCall -> Struct \union {None}]
  /\ TopLevel \subseteq CastCall /\ IsFiniteSet(CastCall)
ASSUME ObjectAssumption ==
  /\ Type \in [Object -> Struct \union {None}] /\ VTable \subseteq Object /\ IsFiniteSet(Object)
ASSUME SolutionAssumption == \A s \in Solutions : s \in Solution
-----------------------------------------------------------------------------
(* Types.                                                                  *)

(* The least set with t that is closed under Next.                         *)
Closure(t, Step(_)) ==
  {s \in Struct : \A S \in SUBSET Struct :
     (t \in S /\ \A u \in S : Step(u) \subseteq S) => s \in S}

(* isContained() does not look into arrays, the walk along the first       *)
(* fields does.                                                            *)
SubStructs(t) == {Fields[t][i].struct : i \in {j \in DOMAIN Fields[t] : ~Fields[t][j].array}} \ {None}
FirstStruct(t) == IF Fields[t] = <<>> THEN {} ELSE {Fields[t][1].struct} \ {None}

IsContained(dst, actual) == \E s \in Closure(actual, SubStructs) : s = dst \/ s = BaseOf[dst]

IsPhantom(base, derived) ==
  Len(Fields[derived]) = 1 /\ Fields[derived][1] = [struct |-> base, array |-> FALSE]

IsRightType(actual, dst) == IsContained(dst, actual) \/ IsPhantom(actual, dst)

IsBadType(actual, dst, o) == ~IsContained(dst, actual) /\ ~IsPhantom(actual, dst) /\ o \notin VTable

AtOffset0(t) == Closure(t, FirstStruct)
Testable(c, o) == Type[o] # None /\ Dst[c] # None

\* mutant: one bad subobject at offset 0 is enough
IsBadCastAny(c, o) ==
  Testable(c, o) /\ \E t \in AtOffset0(Type[o]) : IsBadType(t, Dst[c], o)

(* IsBadCast(): every struct at offset 0 of the object is a bad type.      *)
IsBadCast(c, o) ==
  Testable(c, o) /\ \A t \in AtOffset0(Type[o]) : IsBadType(t, Dst[c], o)

(* IsRightCast(): one of them is a right type.                             *)
IsRightCast(c, o) ==
  Testable(c, o) /\ \E t \in AtOffset0(Type[o]) : IsRightType(t, Dst[c])

BadObjects == [c \in CastCall |-> {o \in Object : IsBadCast(c, o)}]
RightObjects == [c \in CastCall |-> {o \in Object : IsRightCast(c, o)}]
-----------------------------------------------------------------------------
VARIABLES
  opt,
  solution,     \* the results of the analyses still to come, and of pta
  pc, ran,
  allCasts, safe, unsafe, uncertain,   \* the instruction sets of CastStat
  info,         \* TypeConfusionInfo: [inst, pointees] entries
  pointsCnt,    \* ValPointscntMap
  histogram,
  castsLeft,    \* FindPossibleTypeConfusions(): casts still to judge
  report        \* what TypeConfusionReport() printed: [inst, must] entries

castStat == <<allCasts, safe, unsafe, uncertain, info, pointsCnt, histogram>>
vars == <<opt, solution, pc, ran, castStat, castsLeft, report>>

Init ==
  /\ opt \in Option
  /\ solution \in Solutions
  /\ pc = "analyze" /\ ran = 0
  /\ allCasts = {} /\ safe = {} /\ unsafe = {} /\ uncertain = {}
  /\ info = <<>> /\ pointsCnt = <<>> /\ histogram = <<>>
  /\ castsLeft = {} /\ report = <<>>

(* The points-to sets of the analysis that ran last.                       *)
Pts(c) == solution[ran][c]

(* runOnModule(): dynamic and reinterpret casts are gathered on demand.    *)
Gathered ==
  {c \in CastCall : /\ Kind[c] = "dynamic" => opt.detectDynamic
                    /\ Kind[c] = "reinterpret" => opt.detectReinterpret}

\* mutant: casts that were not gathered are judged all the same
RunPointerAnalysisOnAll ==
  /\ pc = "analyze" /\ ran < Len(solution)
  /\ ran' = ran + 1
  /\ allCasts' = IF ran = 0 THEN Gathered ELSE allCasts
  /\ castsLeft' = CastCall
  /\ pc' = "find"
  /\ UNCHANGED <<opt, solution, safe, unsafe, uncertain, info, pointsCnt, histogram, report>>

(* runPointerAnalysis(): the next analysis; for the first one the          *)
(* collector is created and gathers the casts.                             *)
RunPointerAnalysis ==
  /\ pc = "analyze" /\ ran < Len(solution)
  /\ ran' = ran + 1
  /\ allCasts' = IF ran = 0 THEN Gathered ELSE allCasts
  /\ castsLeft' = allCasts'
  /\ pc' = "find"
  /\ UNCHANGED <<opt, solution, safe, unsafe, uncertain, info, pointsCnt, histogram, report>>

Bad(c) == Pts(c) \intersect BadObjects[c]
Right(c) == Pts(c) \intersect RightObjects[c]

\* mutant: a cast some of whose pointees are right is safe
VerdictsLenient(c) ==
  IF Pts(c) = {} THEN "none" ELSE IF Bad(c) = Pts(c) THEN "unsafe"
  ELSE IF Right(c) # {} THEN "safe" ELSE "uncertain"

Verdict(c) ==
  IF Pts(c) = {} THEN "none" ELSE IF Bad(c) = Pts(c) THEN "unsafe"
  ELSE IF Right(c) = Pts(c) THEN "safe" ELSE "uncertain"

\* mutant: only unsafe casts are reported, whatever the options say
SuspectsUnsafeOnly(c) == Bad(c) # {} /\ Bad(c) = Pts(c)

Suspect(c) == Bad(c) # {} /\ (opt.conservative => Bad(c) = Pts(c))

(* FindPossibleTypeConfusions(), one cast.                                 *)
FindPossibleTypeConfusion(c) ==
  /\ pc = "find" /\ c \in castsLeft
  /\ castsLeft' = castsLeft \ {c}
  /\ IF c \notin TopLevel THEN UNCHANGED castStat
     ELSE /\ pointsCnt' = [d \in DOMAIN pointsCnt \union {c} |->
                             IF d = c THEN Cardinality(Pts(c)) ELSE pointsCnt[d]]
          /\ unsafe' = unsafe \union {d \in {c} : Verdict(d) = "unsafe"}
          /\ safe' = safe \union {d \in {c} : Verdict(d) = "safe"}
          /\ uncertain' = uncertain \union {d \in {c} : Verdict(d) = "uncertain"}
          /\ info' = IF Suspect(c)
                     THEN Append(info, [inst |-> c, pointees |-> Bad(c) \union Right(c)])
                     ELSE info
          /\ UNCHANGED <<allCasts, histogram>>
  /\ UNCHANGED <<opt, solution, pc, ran, report>>

(* PrintHistogram(): how many pointers have how many pointees.             *)
Count(n) == Cardinality({c \in DOMAIN pointsCnt : pointsCnt[c] = n})
PrintHistogram ==
  /\ pc = "find" /\ castsLeft = {}
  /\ LET counts == {pointsCnt[c] : c \in DOMAIN pointsCnt}
     IN histogram' = [n \in DOMAIN histogram \union counts |->
                        IF n \in DOMAIN histogram THEN histogram[n] + Count(n) ELSE Count(n)]
  /\ pc' = "report"
  /\ UNCHANGED <<opt, solution, ran, allCasts, safe, unsafe, uncertain, info, pointsCnt,
                 castsLeft, report>>

(* TypeConfusionReport().                                                  *)
TypeConfusionReport ==
  /\ pc = "report"
  /\ report' = [i \in DOMAIN info |-> [inst |-> info[i].inst, must |-> info[i].inst \in unsafe]]
  /\ pc' = "analyze"
  /\ UNCHANGED <<opt, solution, ran, castStat, castsLeft>>

Finished == pc = "analyze" /\ ran = Len(solution) /\ UNCHANGED vars

Next ==
  \/ RunPointerAnalysis
  \/ \E c \in CastCall : FindPossibleTypeConfusion(c)
  \/ PrintHistogram \/ TypeConfusionReport
  \/ Finished

Spec == Init /\ [][Next]_vars
-----------------------------------------------------------------------------
TypeOK ==
  /\ opt \in Option /\ solution \in Solution /\ ran \in 0..Len(solution)
  /\ pc \in {"analyze", "find", "report"}
  /\ allCasts \subseteq CastCall /\ castsLeft \subseteq allCasts
  /\ safe \subseteq allCasts /\ unsafe \subseteq allCasts /\ uncertain \subseteq allCasts
  /\ info \in Seq([inst : CastCall, pointees : SUBSET Object])
  /\ DOMAIN pointsCnt \subseteq allCasts /\ \A c \in DOMAIN pointsCnt : pointsCnt[c] \in Nat
  /\ DOMAIN histogram \subseteq Nat /\ \A n \in DOMAIN histogram : histogram[n] \in Nat
  /\ report \in Seq([inst : CastCall, must : BOOLEAN])

(* The analyses of a pass refine each other: a later one never finds a     *)
(* pointee that an earlier one has excluded, and it leaves one.            *)
Refining(s) ==
  \A i, j \in DOMAIN s : i <= j =>
    \A c \in CastCall : s[j][c] \subseteq s[i][c] /\ (s[i][c] # {} => s[j][c] # {})

(* The two tests are not each other's negation, so both verdicts are       *)
(* counted apart; still, no cast is ever judged definitely safe by one     *)
(* analysis and definitely unsafe by another one that refines it.          *)
NeverBothVerdicts == Refining(solution) => safe \intersect unsafe = {}

(* Verdicts kept from earlier analyses still hold for what the last one    *)
(* found: its safe casts have right pointees only, its unsafe ones bad     *)
(* pointees only.                                                          *)
VerdictsHold ==
  Refining(solution) /\ ran > 0 =>
    /\ \A c \in safe : Pts(c) \subseteq RightObjects[c] \ BadObjects[c]
    /\ \A c \in unsafe : Pts(c) \subseteq BadObjects[c] \ RightObjects[c]

(* Every cast the last analysis found a bad pointee for is in its report,  *)
(* marked MUST BE exactly if no pointee can be anything but bad; with      *)
(* -conservative-tcd only those are in it.                                 *)
Judged(c) == c \in allCasts \intersect TopLevel
ReportComplete ==
  pc = "analyze" /\ ran > 0 /\ Refining(solution) =>
    /\ \A c \in CastCall : Judged(c) /\ Bad(c) # {} /\ (opt.conservative => Bad(c) = Pts(c)) =>
         \E i \in DOMAIN report : report[i].inst = c /\ report[i].must = (Bad(c) = Pts(c))
    /\ opt.conservative => \A i \in DOMAIN report : report[i].must
=============================================================================
