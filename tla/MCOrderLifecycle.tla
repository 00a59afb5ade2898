-------------------------- MODULE MCOrderLifecycle --------------------------
(***************************************************************************)
(* OrderLifecycle for TLC: two orders, three refund requests each (the     *)
(* limit of the code).                                                     *)
(***************************************************************************)
EXTENDS OrderLifecycle, TLC

Symmetry == Permutations(Orders)
=============================================================================
