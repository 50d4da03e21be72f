---------------------------- MODULE MCSearchThreads ----------------------------
(* SearchThreads for TLC.                                                     *)
EXTENDS SearchThreads, TLC

\* Accounts, objects and workers are interchangeable in safety properties.
Symmetry ==
    Permutations(Addresses) \union Permutations(Objects)
        \union Permutations(Workers)

===============================================================================
