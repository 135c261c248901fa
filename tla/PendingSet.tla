----------------------------- MODULE PendingSet -----------------------------
(***************************************************************************)
(* The abstract work list: the set of data that still have to be           *)
(* processed.  push adds one, pop takes one (which, the abstraction does   *)
(* not say) and never happens when nothing is pending, clear drops all.    *)
(***************************************************************************)
CONSTANT Data

VARIABLE pending

Init == pending = {}
Push(d) == pending' = pending \union {d}
Take(d) == d \in pending /\ pending' = pending \ {d}
Clear == pending' = {}

Next == (\E d \in Data : Push(d) \/ Take(d)) \/ Clear

Spec == Init /\ [][Next]_pending
=============================================================================
