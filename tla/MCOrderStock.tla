---------------------------- MODULE MCOrderStock ----------------------------
(***************************************************************************)
(* OrderStock for TLC.  More orders than pieces, so that some are refused, *)
(* wait for a released piece, or compete for the last one.                 *)
(***************************************************************************)
EXTENDS OrderStock, TLC

Symmetry == Permutations(Orders)
=============================================================================
