------------------------------ MODULE WorkList ------------------------------
(***************************************************************************)
(* The work list that drives every solver of SVF: FIFOWorkList and         *)
(* FILOWorkList of include/Util/WorkList.h.  A work list is a deque        *)
(* (data_list) with a set (data_set) that mirrors it, so that a node that  *)
(* is already waiting is not queued a second time.                         *)
(*                                                                         *)
(* The two classes differ only in the end pop() takes (popEnd).  The calls *)
(* come from a client that may interleave push, pop and clear in any       *)
(* order: all solvers push while they drain.                               *)
(***************************************************************************)
EXTENDS Naturals, Sequences

CONSTANT Data       \* what is queued: node ids, statements, functions...

VARIABLES popEnd,   \* "front" for a FIFOWorkList, "back" for a FILOWorkList
          data_list, data_set

vars == <<popEnd, data_list, data_set>>

Contents == {data_list[i] : i \in DOMAIN data_list}

Init == popEnd \in {"front", "back"} /\ data_list = <<>> /\ data_set = {}

empty == data_list = <<>>

PushUnrecorded(d) ==        \* mutant: data_set is not told
  /\ d \notin data_set
  /\ data_list' = Append(data_list, d)
  /\ UNCHANGED data_set

PushInFront(d) ==           \* mutant: push_front
  /\ d \notin data_set
  /\ data_list' = <<d>> \o data_list
  /\ data_set' = data_set \union {d}

(* push(): refused, with no change at all, when data_set has the datum.    *)
Push(d) ==
  /\ d \notin data_set
  /\ data_list' = Append(data_list, d)
  /\ data_set' = data_set \union {d}

PopFrontForgetful ==        \* mutant: the datum stays in data_set
  /\ ~empty
  /\ data_list' = Tail(data_list)
  /\ UNCHANGED data_set

PopFrontTwo ==              \* mutant: pop() drops the last datum as well
  /\ ~empty
  /\ data_list' = SubSeq(data_list, 2, Len(data_list) - 1)
  /\ data_set' = {data_list[i] : i \in 2..Len(data_list) - 1}

PopFront ==
  /\ ~empty
  /\ data_list' = Tail(data_list)
  /\ data_set' = data_set \ {Head(data_list)}

PopBack ==
  /\ ~empty
  /\ data_list' = SubSeq(data_list, 1, Len(data_list) - 1)
  /\ data_set' = data_set \ {data_list[Len(data_list)]}

Pop == (popEnd = "front" /\ PopFront) \/ (popEnd = "back" /\ PopBack)

Clear == data_list' = <<>> /\ data_set' = {}

Next == ((\E d \in Data : Push(d)) \/ Pop \/ Clear) /\ UNCHANGED popEnd

Spec == Init /\ [][Next]_vars

(* The solvers run `while (!worklist.empty()) ... worklist.pop()`: a list  *)
(* that is not empty is popped again and again, whatever is pushed.        *)
FairSpec == Spec /\ WF_vars(Pop /\ UNCHANGED popEnd)
-----------------------------------------------------------------------------
TypeOK == popEnd \in {"front", "back"} /\ data_list \in Seq(Data) /\ data_set \in SUBSET Data

(* find() and the refusal of push() read data_set, empty() and pop() read  *)
(* data_list: the two must never disagree, and no datum waits twice        *)
(* ("Elements in the list are unique as they're recorded by std::set").    *)
NoDuplicates == \A i, j \in DOMAIN data_list : data_list[i] = data_list[j] => i = j
SetMirrorsList == data_set = Contents
Mirror == NoDuplicates /\ SetMirrorsList

(* First in, first out, for FIFOWorkList: a datum that arrives queues      *)
(* behind every datum that waits, and of two waiting data the older one    *)
(* leaves first, however pushes are interleaved with pops and however      *)
(* often either comes back.                                                *)
Ahead(d, e) == \E i, j \in DOMAIN data_list : i < j /\ data_list[i] = d /\ data_list[j] = e
NoOvertaking ==
  [][popEnd = "front" =>
       \A d, e \in Data :
         /\ Ahead(d, e) /\ e \notin data_set' => d \notin data_set'
         /\ {d, e} \subseteq data_set' /\ d \in data_set /\ (e \in data_set => Ahead(d, e))
              => d = e \/ Ahead(d, e)']_vars

(* A node that waits is eventually processed (or the list is cleared)      *)
(* although the client pushes for ever: no solver starves a node.  A       *)
(* FILOWorkList promises nothing of the kind.                              *)
Served == popEnd = "front" => \A d \in Data : d \in data_set ~> d \notin data_set

(* What the solvers rely on: a set of pending nodes, from which pop takes  *)
(* one.  Any algorithm that is correct for PendingSet is correct for both  *)
(* classes.                                                                *)
Abstract == INSTANCE PendingSet WITH pending <- data_set
ImplementsPendingSet == Abstract!Spec
=============================================================================
