------------------------------ MODULE MCTxSearch ------------------------------
(***************************************************************************)
(* Instances of TxSearch for TLC.                                          *)
(***************************************************************************)
EXTENDS TxSearch, TLC

\* The handlers run the same code and are told apart by nothing else.
Symmetry == Permutations(Handlers)
===============================================================================
