--------------------------- MODULE MCStockLedger ---------------------------
(* Model-checking instances of StockLedger. *)
EXTENDS StockLedger, TLC

\* Branches are interchangeable: no action orders or names them.
Symmetry == Permutations(Branches)
=============================================================================
