----------------------------- MODULE MCWorkList -----------------------------
(* FIFOWorkList and FILOWorkList over five data: every content of the list. *)
EXTENDS WorkList

=============================================================================
