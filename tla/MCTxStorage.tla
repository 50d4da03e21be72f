----------------------------- MODULE MCTxStorage -----------------------------
(***************************************************************************)
(* TxStorage for TLC: t1 pays the account, t2 spends what it received and  *)
(* returns change.                                                         *)
(***************************************************************************)
EXTENDS TxStorage

CONSTANTS t1, t2, o1, o2

MCTxs == {t1, t2}

MCOutputs == {o1, o2}

MCCreates == [t \in MCTxs |-> IF t = t1 THEN {o1} ELSE {o2}]

MCSpends == [t \in MCTxs |-> IF t = t2 THEN {o1} ELSE {}]

===============================================================================
