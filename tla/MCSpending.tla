----------------------------- MODULE MCSpending -----------------------------
(***************************************************************************)
(* Spending for TLC: an output without unlock time, one with a height, one *)
(* with a height before it has its age, and one with a time stamp.         *)
(***************************************************************************)
EXTENDS Spending

CONSTANTS t0, tHeight, tEarly, tTime, a, b

MCTxs == {t0, tHeight, tEarly, tTime}

MCHeight == [t \in MCTxs |-> IF t = t0 THEN 1 ELSE 0]

MCUnlockTime ==
    [t \in MCTxs |-> CASE t = t0 -> 0 [] t = tHeight -> 3
                       [] t = tEarly -> 1 [] t = tTime -> 12]

MCAmounts == {a, b}

MCRequests == {<<a>>, <<a, b>>}

===============================================================================
