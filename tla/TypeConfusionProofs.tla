------------------------ MODULE TypeConfusionProofs ------------------------
(***************************************************************************)
(* What the verdicts of TypeConfusion mean, for any type hierarchy, any    *)
(* casts and any number of analyses.                                       *)
(***************************************************************************)
EXTENDS TypeConfusion, FiniteSetTheorems, SequenceTheorems, TLAPS

(* IsBadCast() and IsRightCast() never hold of one pointee together: each  *)
(* struct at offset 0 would have to be both.                               *)
LEMMA BadNotRight == \A c \in CastCall : BadObjects[c] \intersect RightObjects[c] = {}
<1> SUFFICES ASSUME NEW c \in CastCall, NEW o \in Object, IsBadCast(c, o), IsRightCast(c, o)
             PROVE  FALSE
  BY DEF BadObjects, RightObjects
<1>1. PICK t \in AtOffset0(Type[o]) : IsRightType(t, Dst[c])
  BY DEF IsRightCast
<1>2. IsBadType(t, Dst[c], o)
  BY <1>1 DEF IsBadCast
<1> QED
  BY <1>1, <1>2 DEF IsBadType, IsRightType

(* The points-to sets the collector reads are finite sets of objects.      *)
LEMMA PtsType ==
  ASSUME TypeOK, ran > 0, NEW c \in CastCall
  PROVE  Pts(c) \subseteq Object /\ Cardinality(Pts(c)) \in Nat
<1>1. solution[ran] \in [CastCall -> SUBSET Object]
  BY DEF TypeOK, Solution
<1>2. Pts(c) \subseteq Object
  BY <1>1 DEF Pts
<1>3. IsFiniteSet(Pts(c))
  BY <1>2, ObjectAssumption, FS_Subset
<1> QED
  BY <1>2, <1>3, FS_CardinalityType

(* The collector's casts are gathered when the first analysis has run.     *)
RanOK == (pc # "analyze" => ran > 0) /\ (ran = 0 => allCasts = {})

(* Every step of pass and collector keeps the types.                       *)
THEOREM TypeCorrect == Spec => [](TypeOK /\ RanOK)
<1> DEFINE Inv == TypeOK /\ RanOK
<1>1. Init => Inv
  <2> SUFFICES ASSUME Init PROVE Inv
    OBVIOUS
  <2>1. solution \in Solution
    BY SolutionAssumption DEF Init
  <2>2. ran \in 0..Len(solution)
    BY <2>1 DEF Init, Solution
  <2>3. DOMAIN pointsCnt = {} /\ DOMAIN histogram = {}
    BY DEF Init
  <2> QED
    BY <2>1, <2>2, <2>3 DEF Init, TypeOK, RanOK
<1>2. Inv /\ [Next]_vars => Inv'
  <2> SUFFICES ASSUME Inv, [Next]_vars PROVE Inv'
    OBVIOUS
  <2>1. CASE RunPointerAnalysis
    <3>1. ran' \in 0..Len(solution) /\ ran' > 0
      BY <2>1 DEF RunPointerAnalysis, TypeOK, Solution
    <3>2. allCasts \subseteq allCasts' /\ allCasts' \subseteq CastCall
      BY <2>1 DEF RunPointerAnalysis, TypeOK, RanOK, Gathered
    <3>3. safe' \subseteq allCasts' /\ unsafe' \subseteq allCasts' /\ uncertain' \subseteq allCasts'
          /\ DOMAIN pointsCnt' \subseteq allCasts' /\ castsLeft' \subseteq allCasts'
      BY <2>1, <3>2 DEF RunPointerAnalysis, TypeOK
    <3> QED
      BY <2>1, <3>1, <3>2, <3>3 DEF RunPointerAnalysis, TypeOK, RanOK
  <2>2. ASSUME NEW c \in CastCall, FindPossibleTypeConfusion(c) PROVE Inv'
    <3>1. ran > 0 /\ c \in allCasts
      BY <2>2 DEF FindPossibleTypeConfusion, TypeOK, RanOK
    <3>2. Pts(c) \subseteq Object /\ Cardinality(Pts(c)) \in Nat
      BY <3>1, PtsType
    <3>3. CASE c \notin TopLevel
      BY <2>2, <3>3 DEF FindPossibleTypeConfusion, castStat, TypeOK, RanOK
    <3>4. CASE c \in TopLevel
      <4>1. DOMAIN pointsCnt' \subseteq allCasts /\ \A d \in DOMAIN pointsCnt' : pointsCnt'[d] \in Nat
        BY <2>2, <3>1, <3>2, <3>4 DEF FindPossibleTypeConfusion, TypeOK
      <4>2. safe' \subseteq allCasts /\ unsafe' \subseteq allCasts /\ uncertain' \subseteq allCasts
        BY <2>2, <3>1, <3>4 DEF FindPossibleTypeConfusion, TypeOK
      <4>3. info' \in Seq([inst : CastCall, pointees : SUBSET Object])
        <5> DEFINE Entry == [inst : CastCall, pointees : SUBSET Object]
                   entry == [inst |-> c, pointees |-> Bad(c) \union Right(c)]
        <5>1. entry \in Entry
          BY <3>2 DEF Bad, Right
        <5>2. info' = Append(info, entry) \/ info' = info
          BY <2>2, <3>4 DEF FindPossibleTypeConfusion
        <5>3. info \in Seq(Entry)
          BY DEF TypeOK
        <5> HIDE DEF Entry, entry
        <5>4. info' \in Seq(Entry)
          BY <5>1, <5>2, <5>3, AppendProperties
        <5> QED
          BY <5>4 DEF Entry
      <4> QED
        BY <2>2, <3>4, <4>1, <4>2, <4>3 DEF FindPossibleTypeConfusion, TypeOK, RanOK
    <3> QED
      BY <3>3, <3>4
  <2>3. CASE PrintHistogram
    <3>1. \A n : Count(n) \in Nat
      <4> SUFFICES ASSUME NEW n PROVE Count(n) \in Nat
        OBVIOUS
      <4>1. {c \in DOMAIN pointsCnt : pointsCnt[c] = n} \subseteq CastCall
        BY DEF TypeOK
      <4> QED
        BY <4>1, CastAssumption, FS_Subset, FS_CardinalityType DEF Count
    <3>2. DOMAIN histogram' \subseteq Nat /\ \A n \in DOMAIN histogram' : histogram'[n] \in Nat
      BY <2>3, <3>1 DEF PrintHistogram, TypeOK
    <3> QED
      BY <2>3, <3>2 DEF PrintHistogram, TypeOK, RanOK
  <2>4. CASE TypeConfusionReport
    <3>1. report' \in Seq([inst : CastCall, must : BOOLEAN])
      <4> DEFINE InfoEntry == [inst : CastCall, pointees : SUBSET Object]
      <4>1. info \in Seq(InfoEntry) /\ \A e \in InfoEntry : e.inst \in CastCall
        BY DEF TypeOK
      <4> HIDE DEF InfoEntry
      <4>2. Len(info) \in Nat /\ DOMAIN info = 1..Len(info)
            /\ \A i \in 1..Len(info) : info[i].inst \in CastCall
        BY <4>1
      <4> DEFINE Entry == [inst : CastCall, must : BOOLEAN]
      <4>3. report' \in [1..Len(info) -> Entry]
        BY <2>4, <4>2 DEF TypeConfusionReport
      <4> HIDE DEF Entry
      <4>4. report' \in Seq(Entry)
        BY <4>2, <4>3, SeqDef
      <4> QED
        BY <4>4 DEF Entry
    <3> QED
      BY <2>4, <3>1 DEF TypeConfusionReport, castStat, TypeOK, RanOK
  <2>5. CASE Finished \/ UNCHANGED vars
    BY <2>5 DEF Finished, vars, castStat, TypeOK, RanOK
  <2> QED
    BY <2>1, <2>2, <2>3, <2>4, <2>5 DEF Next
<1> QED
  BY <1>1, <1>2, PTL DEF Spec
-----------------------------------------------------------------------------
(* A verdict was given by some analysis that found pointees, and rests on  *)
(* all the pointees it found.                                              *)
SafeBy(c, i) == solution[i][c] # {} /\ solution[i][c] \subseteq RightObjects[c]
UnsafeBy(c, i) == solution[i][c] # {} /\ solution[i][c] \subseteq BadObjects[c]
Grounded ==
  /\ \A c \in safe : \E i \in 1..ran : SafeBy(c, i)
  /\ \A c \in unsafe : \E i \in 1..ran : UnsafeBy(c, i)

(* No verdict is kept that no analysis has given: judging adds one for the *)
(* current points-to set, and nothing else touches the sets.               *)
THEOREM VerdictsGrounded == Spec => []Grounded
<1>1. Init => Grounded
  BY DEF Init, Grounded
<1>2. TypeOK /\ RanOK /\ Grounded /\ [Next]_vars => Grounded'
  <2> SUFFICES ASSUME TypeOK, RanOK, Grounded, [Next]_vars PROVE Grounded'
    OBVIOUS
  <2>1. solution' = solution /\ ran \in Nat
    <3>1. solution' = solution
      BY DEF Next, vars, RunPointerAnalysis, FindPossibleTypeConfusion, PrintHistogram,
             TypeConfusionReport, Finished
    <3>2. ran \in Nat
      BY DEF TypeOK, Solution
    <3> QED
      BY <3>1, <3>2
  <2>2. CASE RunPointerAnalysis
    BY <2>1, <2>2 DEF RunPointerAnalysis, Grounded, SafeBy, UnsafeBy
  <2>3. ASSUME NEW c \in CastCall, FindPossibleTypeConfusion(c) PROVE Grounded'
    <3>1. ran \in 1..ran
      BY <2>1, <2>3 DEF FindPossibleTypeConfusion, RanOK
    <3>2. ASSUME NEW d \in safe' PROVE \E i \in 1..ran : SafeBy(d, i)
      <4>1. d \in safe \/ (d = c /\ Verdict(c) = "safe")
        BY <2>3, <3>2 DEF FindPossibleTypeConfusion, castStat
      <4>2. Verdict(c) = "safe" => SafeBy(c, ran)
        <5>1. Verdict(c) = "safe" => Pts(c) # {} /\ Right(c) = Pts(c)
          BY DEF Verdict
        <5>2. Right(c) = Pts(c) => Pts(c) \subseteq RightObjects[c]
          BY DEF Right
        <5> QED
          BY <5>1, <5>2 DEF SafeBy, Pts
      <4> QED
        BY <3>1, <4>1, <4>2 DEF Grounded
    <3>3. ASSUME NEW d \in unsafe' PROVE \E i \in 1..ran : UnsafeBy(d, i)
      <4>1. d \in unsafe \/ (d = c /\ Verdict(c) = "unsafe")
        BY <2>3, <3>3 DEF FindPossibleTypeConfusion, castStat
      <4>2. Verdict(c) = "unsafe" => UnsafeBy(c, ran)
        <5>1. Verdict(c) = "unsafe" => Pts(c) # {} /\ Bad(c) = Pts(c)
          BY DEF Verdict
        <5>2. Bad(c) = Pts(c) => Pts(c) \subseteq BadObjects[c]
          BY DEF Bad
        <5> QED
          BY <5>1, <5>2 DEF UnsafeBy, Pts
      <4> QED
        BY <3>1, <4>1, <4>2 DEF Grounded
    <3>4. ran' = ran
      BY <2>3 DEF FindPossibleTypeConfusion
    <3> QED
      BY <2>1, <3>2, <3>3, <3>4 DEF Grounded, SafeBy, UnsafeBy
  <2>4. CASE PrintHistogram \/ TypeConfusionReport \/ Finished \/ UNCHANGED vars
    BY <2>1, <2>4 DEF PrintHistogram, TypeConfusionReport, Finished, vars, castStat, Grounded,
                      SafeBy, UnsafeBy
  <2> QED
    BY <2>2, <2>3, <2>4 DEF Next
<1> QED
  BY <1>1, <1>2, TypeCorrect, PTL DEF Spec

(* With analyses that refine each other, no pointee is left that could     *)
(* contradict a verdict, and there is one.                                 *)
LEMMA VerdictsKept ==
  ASSUME TypeOK, RanOK, Grounded, Refining(solution)
  PROVE  /\ ran > 0 => /\ \A c \in safe : Pts(c) \subseteq RightObjects[c] \ BadObjects[c]
                       /\ \A c \in unsafe : Pts(c) \subseteq BadObjects[c] \ RightObjects[c]
         /\ safe \intersect unsafe = {}
<1>1. ran \in Nat /\ 1..ran \subseteq DOMAIN solution /\ safe \subseteq CastCall /\ unsafe \subseteq CastCall
  BY DEF TypeOK, Solution
<1>2. ASSUME NEW c \in CastCall, NEW i \in 1..ran, solution[i][c] # {}
      PROVE  Pts(c) # {} /\ Pts(c) \subseteq solution[i][c]
  BY <1>1, <1>2 DEF Refining, Pts
<1>3. ASSUME NEW c \in safe PROVE Pts(c) # {} /\ Pts(c) \subseteq RightObjects[c]
  BY <1>1, <1>2 DEF Grounded, SafeBy
<1>4. ASSUME NEW c \in unsafe PROVE Pts(c) # {} /\ Pts(c) \subseteq BadObjects[c]
  BY <1>1, <1>2 DEF Grounded, UnsafeBy
<1> QED
  BY <1>1, <1>3, <1>4, BadNotRight

(* The verdicts an earlier analysis left behind still hold for the results *)
(* of the last one.                                                        *)
THEOREM VerdictsStillHold == Spec => []VerdictsHold
<1>1. TypeOK /\ RanOK /\ Grounded => VerdictsHold
  BY VerdictsKept DEF VerdictsHold
<1> QED
  BY <1>1, TypeCorrect, VerdictsGrounded, PTL

(* No two analyses that refine each other judge a cast in opposite ways.   *)
THEOREM VerdictsDisjoint == Spec => []NeverBothVerdicts
<1>1. TypeOK /\ RanOK /\ Grounded => NeverBothVerdicts
  BY VerdictsKept DEF NeverBothVerdicts
<1> QED
  BY <1>1, TypeCorrect, VerdictsGrounded, PTL
-----------------------------------------------------------------------------
(* What the collector keeps of a cast it has judged: an entry if it is     *)
(* suspect, and the verdict if every pointee is bad.                       *)
HasEntry(c) == \E i \in DOMAIN info : info[i].inst = c
Recorded(c) ==
  c \in TopLevel /\ Bad(c) # {} =>
    /\ Suspect(c) => HasEntry(c)
    /\ Bad(c) = Pts(c) => c \in unsafe

(* Judging goes through all casts before the entries are printed, with the *)
(* verdicts as they are then; nothing changes them until the next analysis.*)
Recording ==
  /\ pc = "find" => \A c \in allCasts \ castsLeft : Recorded(c)
  /\ pc = "report" \/ (pc = "analyze" /\ ran > 0) => \A c \in allCasts : Recorded(c)
  /\ pc = "analyze" /\ ran > 0 =>
       report = [i \in DOMAIN info |-> [inst |-> info[i].inst, must |-> info[i].inst \in unsafe]]
  /\ opt.conservative => \A i \in DOMAIN info : info[i].inst \in unsafe

(* One cast is judged: it is recorded now, and what was stays recorded.    *)
LEMMA JudgeRecords ==
  ASSUME TypeOK, RanOK, Recording, NEW c \in CastCall, FindPossibleTypeConfusion(c)
  PROVE  Recording'
<1> DEFINE entry == [inst |-> c, pointees |-> Bad(c) \union Right(c)]
           InfoEntry == [inst : CastCall, pointees : SUBSET Object]
<1>1. /\ pc = "find" /\ pc' = "find" /\ opt' = opt /\ allCasts' = allCasts
      /\ castsLeft' = castsLeft \ {c}
      /\ \A d : (Bad(d))' = Bad(d) /\ (Pts(d))' = Pts(d) /\ (Suspect(d))' = Suspect(d)
  BY DEF FindPossibleTypeConfusion, castStat, Bad, Pts, Suspect
<1>2. CASE c \notin TopLevel
  <2>1. info' = info /\ unsafe' = unsafe /\ (Recorded(c))'
    BY <1>2 DEF FindPossibleTypeConfusion, castStat, Recorded
  <2> QED
    BY <1>1, <2>1 DEF Recording, Recorded, HasEntry
<1>3. CASE c \in TopLevel
  <2>1. /\ unsafe' = unsafe \union {d \in {c} : Verdict(d) = "unsafe"}
        /\ info' = IF Suspect(c) THEN Append(info, entry) ELSE info
    BY <1>3 DEF FindPossibleTypeConfusion
  <2>2. Bad(c) # {} /\ Bad(c) = Pts(c) => c \in unsafe'
    BY <2>1 DEF Verdict
  <2>3. /\ \A i \in DOMAIN info : i \in DOMAIN info' /\ info'[i] = info[i]
        /\ Suspect(c) => \E i \in DOMAIN info' : info'[i].inst = c
        /\ \A i \in DOMAIN info' : i \in DOMAIN info \/ (Suspect(c) /\ info'[i].inst = c)
    <3>1. CASE Suspect(c)
      <4>1. info \in Seq(InfoEntry)
        BY DEF TypeOK
      <4> HIDE DEF InfoEntry
      <4>2. Len(info) \in Nat /\ DOMAIN info = 1..Len(info) /\ Len(info') = Len(info) + 1
            /\ DOMAIN info' = 1..Len(info) + 1 /\ info'[Len(info) + 1] = entry
            /\ \A i \in 1..Len(info) : info'[i] = info[i]
        BY <2>1, <3>1, <4>1
      <4> QED
        BY <3>1, <4>2
    <3> QED
      BY <2>1, <3>1
  <2>4. \A d : d # c /\ Recorded(d) => (Recorded(d))'
    BY <1>1, <2>1, <2>3 DEF Recorded, HasEntry
  <2>5. (Recorded(c))'
    BY <1>1, <2>2, <2>3 DEF Recorded, HasEntry
  <2>6. opt'.conservative => \A i \in DOMAIN info' : info'[i].inst \in unsafe'
    <3>1. Suspect(c) /\ opt.conservative => c \in unsafe'
      BY <2>2 DEF Suspect
    <3> QED
      BY <1>1, <2>1, <2>3, <3>1 DEF Recording
  <2> QED
    BY <1>1, <2>4, <2>5, <2>6 DEF Recording
<1> QED
  BY <1>2, <1>3

(* The last report names every cast the last analysis gives a reason to,   *)
(* whatever earlier analyses left in the collector.                        *)
THEOREM ReportsComplete == Spec => []ReportComplete
<1>1. Init => Recording
  BY DEF Init, Recording
<1>2. TypeOK /\ RanOK /\ Recording /\ [Next]_vars => Recording'
  <2> SUFFICES ASSUME TypeOK, RanOK, Recording, [Next]_vars PROVE Recording'
    OBVIOUS
  <2>1. CASE RunPointerAnalysis
    BY <2>1 DEF RunPointerAnalysis, Recording
  <2>2. ASSUME NEW c \in CastCall, FindPossibleTypeConfusion(c) PROVE Recording'
    BY <2>2, JudgeRecords
  <2>3. CASE PrintHistogram
    BY <2>3 DEF PrintHistogram, Recording, Recorded, HasEntry, Bad, Pts, Suspect
  <2>4. CASE TypeConfusionReport
    BY <2>4 DEF TypeConfusionReport, castStat, Recording, Recorded, HasEntry, Bad, Pts, Suspect
  <2>5. CASE Finished \/ UNCHANGED vars
    BY <2>5 DEF Finished, vars, castStat, Recording, Recorded, HasEntry, Bad, Pts, Suspect
  <2> QED
    BY <2>1, <2>2, <2>3, <2>4, <2>5 DEF Next
<1>3. TypeOK /\ RanOK /\ Grounded /\ Recording => ReportComplete
  <2> SUFFICES ASSUME TypeOK, RanOK, Grounded, Recording,
                      pc = "analyze", ran > 0, Refining(solution)
               PROVE  /\ \A c \in CastCall :
                           Judged(c) /\ Bad(c) # {} /\ (opt.conservative => Bad(c) = Pts(c)) =>
                             \E i \in DOMAIN report :
                               report[i].inst = c /\ report[i].must = (Bad(c) = Pts(c))
                      /\ opt.conservative => \A i \in DOMAIN report : report[i].must
    BY DEF ReportComplete
  <2>1. /\ DOMAIN report = DOMAIN info
        /\ \A i \in DOMAIN info : /\ report[i].inst = info[i].inst
                                  /\ report[i].must = (info[i].inst \in unsafe)
    BY DEF Recording
  <2>2. ASSUME NEW c \in CastCall, Judged(c), Bad(c) # {}, opt.conservative => Bad(c) = Pts(c)
        PROVE  \E i \in DOMAIN report : report[i].inst = c /\ report[i].must = (Bad(c) = Pts(c))
    <3>1. Recorded(c) /\ c \in TopLevel /\ Suspect(c)
      BY <2>2 DEF Recording, Judged, Suspect
    <3>2. PICK i \in DOMAIN info : info[i].inst = c
      BY <2>2, <3>1 DEF Recorded, HasEntry
    <3>3. Bad(c) = Pts(c) => c \in unsafe
      BY <2>2, <3>1 DEF Recorded
    <3>4. c \in unsafe => Bad(c) = Pts(c)
      BY VerdictsKept DEF Bad
    <3> QED
      BY <2>1, <3>2, <3>3, <3>4
  <2>3. opt.conservative => \A i \in DOMAIN report : report[i].must
    BY <2>1 DEF Recording
  <2> QED
    BY <2>2, <2>3
<1> QED
  BY <1>1, <1>2, <1>3, TypeCorrect, VerdictsGrounded, PTL DEF Spec
=============================================================================
