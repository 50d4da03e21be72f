------------------------------ MODULE MCMempool ------------------------------
(***************************************************************************)
(* Mempool for TLC: t1 pays the account, t2 spends what it received and    *)
(* returns change, and t3 spends the same output to pay for an import.     *)
(***************************************************************************)
EXTENDS Mempool

CONSTANTS t1, t2, t3, k1, k2

MCTxs == {t1, t2, t3}

MCReceived == [t \in MCTxs |-> IF t = t1 THEN 3 ELSE IF t = t2 THEN 1 ELSE 0]

MCRing == [t \in MCTxs |-> IF t = t1 THEN {} ELSE {t1}]

MCKeyImages == [t \in MCTxs |-> IF t = t1 THEN {k1} ELSE {k2}]

===============================================================================
