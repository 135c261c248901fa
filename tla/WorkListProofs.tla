--------------------------- MODULE WorkListProofs ---------------------------
(***************************************************************************)
(* What the solvers take for granted about FIFOWorkList and FILOWorkList,  *)
(* for every set of data and every sequence of calls.                      *)
(***************************************************************************)
EXTENDS WorkList, SequenceTheorems, TLAPS

(* What pop() leaves of a list, at either end.                             *)
LEMMA PopFacts ==
  ASSUME TypeOK, ~empty
  PROVE  /\ Len(data_list) \in Nat \ {0}
         /\ DOMAIN data_list = 1..Len(data_list)
         /\ Tail(data_list) \in Seq(Data)
         /\ Len(Tail(data_list)) = Len(data_list) - 1
         /\ \A i \in 1..Len(data_list) - 1 : Tail(data_list)[i] = data_list[i + 1]
         /\ SubSeq(data_list, 1, Len(data_list) - 1) \in Seq(Data)
         /\ Len(SubSeq(data_list, 1, Len(data_list) - 1)) = Len(data_list) - 1
         /\ \A i \in 1..Len(data_list) - 1 :
              SubSeq(data_list, 1, Len(data_list) - 1)[i] = data_list[i]
<1>1. data_list \in Seq(Data) /\ data_list # <<>> BY DEF TypeOK, empty
<1>2. /\ Len(data_list) \in Nat \ {0}
      /\ DOMAIN data_list = 1..Len(data_list)
  BY <1>1, EmptySeq, LenProperties
<1>3. /\ Tail(data_list) \in Seq(Data)
      /\ Len(Tail(data_list)) = Len(data_list) - 1
      /\ \A i \in 1..Len(data_list) - 1 : Tail(data_list)[i] = data_list[i + 1]
  BY <1>1, <1>2, HeadTailProperties
<1>4. /\ SubSeq(data_list, 1, Len(data_list) - 1) \in Seq(Data)
      /\ Len(SubSeq(data_list, 1, Len(data_list) - 1)) = Len(data_list) - 1
      /\ \A i \in 1..Len(data_list) - 1 :
           SubSeq(data_list, 1, Len(data_list) - 1)[i] = data_list[i]
  BY <1>1, <1>2
<1> QED BY <1>2, <1>3, <1>4

(* FIFOWorkList and FILOWorkList hold each datum once and data_set is      *)
(* always the set of data_list, so find(), push() and empty() agree.       *)
THEOREM MirrorHolds == Spec => [](TypeOK /\ Mirror)
<1>1. Init => TypeOK /\ Mirror
  BY DEF Init, TypeOK, Mirror, NoDuplicates, SetMirrorsList, Contents
<1>2. TypeOK /\ Mirror /\ [Next]_vars => (TypeOK /\ Mirror)'
  <2> SUFFICES ASSUME TypeOK, Mirror, [Next]_vars PROVE (TypeOK /\ Mirror)'
    OBVIOUS
  <2>0. popEnd' \in {"front", "back"}
    BY DEF Next, vars, TypeOK
  <2> USE DEF Mirror, NoDuplicates, SetMirrorsList, Contents
  <2>1. ASSUME NEW d \in Data, Push(d) PROVE (TypeOK /\ Mirror)'
    BY <2>0, <2>1 DEF Push, TypeOK
  <2>2. CASE PopFront
    <3>1. ~empty BY <2>2 DEF PopFront
    <3>2. TypeOK' BY <2>0, <2>2, <3>1, PopFacts DEF TypeOK, PopFront
    <3>3. DOMAIN data_list' = 1..Len(data_list) - 1
      BY <2>2, <3>1, PopFacts DEF PopFront
    <3>4. \A i \in 1..Len(data_list) - 1 : data_list'[i] = data_list[i + 1]
      BY <2>2, <3>1, PopFacts DEF PopFront
    <3>5. NoDuplicates' BY <3>1, <3>3, <3>4, PopFacts
    <3>6. SetMirrorsList'
      <4>1. ASSUME NEW x \in data_set' PROVE x \in Contents'
        <5>1. PICK i \in 1..Len(data_list) : data_list[i] = x
          BY <2>2, <3>1, PopFacts, <4>1 DEF PopFront
        <5>2. i # 1 BY <2>2, <5>1, <4>1, <3>1 DEF PopFront, TypeOK, empty
        <5>3. i - 1 \in 1..Len(data_list) - 1 /\ data_list'[i - 1] = x
          BY <5>1, <5>2, <3>1, <3>4, PopFacts
        <5> QED BY <5>3, <3>3
      <4>2. ASSUME NEW i \in 1..Len(data_list) - 1 PROVE data_list'[i] \in data_set'
        <5>1. data_list[i + 1] # data_list[1] BY <3>1, PopFacts
        <5>2. data_list[i + 1] \in data_set BY <3>1, PopFacts
        <5>3. Head(data_list) = data_list[1] BY DEF TypeOK
        <5> QED BY <2>2, <5>1, <5>2, <5>3, <3>4 DEF PopFront
      <4> QED BY <4>1, <4>2, <3>3
    <3> QED BY <3>2, <3>5, <3>6
  <2>3. CASE PopBack
    <3>1. ~empty BY <2>3 DEF PopBack
    <3>2. TypeOK' BY <2>0, <2>3, <3>1, PopFacts DEF TypeOK, PopBack
    <3>3. DOMAIN data_list' = 1..Len(data_list) - 1
      BY <2>3, <3>1, PopFacts DEF PopBack
    <3>4. \A i \in 1..Len(data_list) - 1 : data_list'[i] = data_list[i]
      BY <2>3, <3>1, PopFacts DEF PopBack
    <3>5. NoDuplicates' BY <3>1, <3>3, <3>4, PopFacts
    <3>6. SetMirrorsList'
      <4>1. ASSUME NEW x \in data_set' PROVE x \in Contents'
        <5>1. PICK i \in 1..Len(data_list) : data_list[i] = x
          BY <2>3, <3>1, PopFacts, <4>1 DEF PopBack
        <5>2. i # Len(data_list) BY <2>3, <5>1, <4>1 DEF PopBack
        <5>3. i \in 1..Len(data_list) - 1
          <6>1. Len(data_list) \in Nat BY <3>1, PopFacts
          <6> QED BY <6>1, <5>2
        <5>4. data_list'[i] = x BY <5>1, <5>3, <3>4
        <5> QED BY <5>3, <5>4, <3>3
      <4>2. ASSUME NEW i \in 1..Len(data_list) - 1 PROVE data_list'[i] \in data_set'
        <5>1. data_list[i] # data_list[Len(data_list)] BY <3>1, PopFacts
        <5>2. data_list[i] \in data_set BY <3>1, PopFacts
        <5> QED BY <2>3, <5>1, <5>2, <3>4 DEF PopBack
      <4> QED BY <4>1, <4>2, <3>3
    <3> QED BY <3>2, <3>5, <3>6
  <2>4. CASE Clear BY <2>0, <2>4 DEF Clear, TypeOK
  <2>5. CASE UNCHANGED vars BY <2>5 DEF vars, TypeOK
  <2> QED BY <2>1, <2>2, <2>3, <2>4, <2>5 DEF Next, Pop
<1> QED BY <1>1, <1>2, PTL DEF Spec

(* What is ahead of something waits, and so does what is behind it.        *)
LEMMA AheadWaits ==
  ASSUME Mirror, NEW d, NEW e, Ahead(d, e)
  PROVE  d \in data_set /\ e \in data_set
BY DEF Mirror, SetMirrorsList, Contents, Ahead

(* push() appends: nobody leaves, and what is new is behind all the rest.  *)
LEMMA PushOvertakesNobody ==
  ASSUME TypeOK, Mirror, NEW x \in Data, Push(x), NEW d, NEW e,
         e \in data_set', d \in data_set, e \in data_set => Ahead(d, e)
  PROVE  Ahead(d, e)'
<1>1. /\ Len(data_list) \in Nat /\ DOMAIN data_list = 1..Len(data_list)
      /\ DOMAIN data_list' = 1..Len(data_list) + 1
      /\ \A i \in 1..Len(data_list) : data_list'[i] = data_list[i]
      /\ data_list'[Len(data_list) + 1] = x
  BY AppendProperties, LenProperties DEF Push, TypeOK
<1>2. CASE e \in data_set
  <2>1. PICK i, j \in DOMAIN data_list : i < j /\ data_list[i] = d /\ data_list[j] = e
    BY <1>2 DEF Ahead
  <2> QED
    BY <1>1, <2>1 DEF Ahead
<1>3. CASE e \notin data_set
  <2>1. e = x
    BY <1>3 DEF Push
  <2>2. PICK i \in DOMAIN data_list : data_list[i] = d
    BY DEF Mirror, SetMirrorsList, Contents
  <2> QED
    BY <1>1, <2>1, <2>2 DEF Ahead
<1> QED
  BY <1>2, <1>3

(* pop() of a FIFOWorkList takes the first, and the rest moves up by one.  *)
LEMMA PopOvertakesNobody ==
  ASSUME TypeOK, Mirror, PopFront, NEW d, NEW e, Ahead(d, e)
  PROVE  /\ e \in data_set'
         /\ d \in data_set' => Ahead(d, e)'
<1>1. /\ Len(data_list) \in Nat /\ DOMAIN data_list = 1..Len(data_list)
      /\ DOMAIN data_list' = 1..Len(data_list) - 1
      /\ \A i \in 1..Len(data_list) - 1 : data_list'[i] = data_list[i + 1]
      /\ 1 \in DOMAIN data_list /\ Head(data_list) = data_list[1]
  BY PopFacts DEF PopFront, TypeOK
<1>2. PICK i, j \in DOMAIN data_list : i < j /\ data_list[i] = d /\ data_list[j] = e
  BY DEF Ahead
<1>3. e # Head(data_list)
  BY <1>1, <1>2 DEF Mirror, NoDuplicates
<1>4. e \in data_set'
  BY <1>3, AheadWaits DEF PopFront
<1>5. ASSUME d \in data_set'
      PROVE  Ahead(d, e)'
  <2>1. i # 1
    BY <1>1, <1>2, <1>5 DEF PopFront
  <2>2. /\ i - 1 \in DOMAIN data_list' /\ j - 1 \in DOMAIN data_list' /\ i - 1 < j - 1
        /\ data_list'[i - 1] = d /\ data_list'[j - 1] = e
    BY <1>1, <1>2, <2>1
  <2> QED
    BY <2>2 DEF Ahead
<1> QED
  BY <1>4, <1>5

(* A FIFOWorkList serves in the order of arrival: a datum that arrives     *)
(* queues behind all that wait, and nobody leaves before one who is ahead, *)
(* in any sequence of pushes, pops and clears.                             *)
THEOREM NobodyOvertakes == Spec => NoOvertaking
<1>1. ASSUME TypeOK, Mirror, Next, popEnd = "front", NEW d \in Data, NEW e \in Data
      PROVE  /\ Ahead(d, e) /\ e \notin data_set' => d \notin data_set'
             /\ {d, e} \subseteq data_set' /\ d \in data_set /\ (e \in data_set => Ahead(d, e))
                  => d = e \/ Ahead(d, e)'
  <2>1. CASE \E x \in Data : Push(x)
    BY <1>1, <2>1, AheadWaits, PushOvertakesNobody DEF Push
  <2>2. CASE PopFront
    <3>1. data_set' \subseteq data_set
      BY <2>2 DEF PopFront
    <3> QED
      BY <1>1, <2>2, <3>1, PopOvertakesNobody
  <2>3. CASE Clear
    BY <2>3 DEF Clear
  <2> QED
    BY <1>1, <2>1, <2>2, <2>3 DEF Next, Pop
<1>2. TypeOK /\ Mirror /\ [Next]_vars =>
        [popEnd = "front" =>
           \A d, e \in Data :
             /\ Ahead(d, e) /\ e \notin data_set' => d \notin data_set'
             /\ {d, e} \subseteq data_set' /\ d \in data_set /\ (e \in data_set => Ahead(d, e))
                  => d = e \/ Ahead(d, e)']_vars
  BY <1>1
<1>3. Spec => [](TypeOK /\ Mirror)
  BY MirrorHolds
<1> QED
  BY <1>2, <1>3, PTL DEF Spec, NoOvertaking

(* Both classes implement the set of pending data: no push is lost, no     *)
(* datum is invented, a pop removes exactly one pending datum.             *)
THEOREM Refinement == Spec => ImplementsPendingSet
<1>1. Init => Abstract!Init
  BY DEF Init, Abstract!Init
<1>2. TypeOK /\ Mirror /\ [Next]_vars => [Abstract!Next]_data_set
  <2> SUFFICES ASSUME TypeOK, Mirror, [Next]_vars PROVE [Abstract!Next]_data_set
    OBVIOUS
  <2> USE DEF Abstract!Next, Abstract!Push, Abstract!Take, Abstract!Clear
  <2>1. ASSUME NEW d \in Data, Push(d) PROVE Abstract!Next
    BY <2>1 DEF Push
  <2>2. CASE PopFront
    <3>1. Head(data_list) = data_list[1] /\ 1 \in DOMAIN data_list
      BY <2>2, PopFacts DEF PopFront, TypeOK
    <3>2. Head(data_list) \in data_set /\ Head(data_list) \in Data
      BY <3>1 DEF Mirror, SetMirrorsList, Contents, TypeOK
    <3> QED BY <2>2, <3>2 DEF PopFront
  <2>3. CASE PopBack
    <3>1. Len(data_list) \in DOMAIN data_list
      BY <2>3, PopFacts DEF PopBack
    <3>2. data_list[Len(data_list)] \in data_set /\ data_list[Len(data_list)] \in Data
      BY <3>1 DEF Mirror, SetMirrorsList, Contents, TypeOK
    <3> QED BY <2>3, <3>2 DEF PopBack
  <2>4. CASE Clear BY <2>4 DEF Clear
  <2>5. CASE UNCHANGED vars BY <2>5 DEF vars
  <2> QED BY <2>1, <2>2, <2>3, <2>4, <2>5 DEF Next, Pop
<1>3. Spec => [](TypeOK /\ Mirror) BY MirrorHolds
<1> QED BY <1>1, <1>2, <1>3, PTL DEF Spec, ImplementsPendingSet, Abstract!Spec
=============================================================================
