-------------------------- MODULE MCStockReconcile --------------------------
(***************************************************************************)
(* StockReconcile for TLC.                                                 *)
(***************************************************************************)
EXTENDS StockReconcile
=============================================================================
