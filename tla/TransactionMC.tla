--------------------------- MODULE TransactionMC ---------------------------
(* Transaction for TLC: ids and links are interchangeable.                 *)
EXTENDS Transaction, TLC

Symmetric == Permutations(Txns) \cup Permutations(Links)
=============================================================================
