------------------------------ MODULE ScanLedger ------------------------------
(***************************************************************************)
(* What the backend promises an account about scanning, without threads,   *)
(* requests or mutexes: blocks from base on are scanned without leaving a  *)
(* hole, and neither the position of the search nor the height saved for   *)
(* the next search is ever beyond a block that was not scanned.            *)
(***************************************************************************)
EXTENDS Integers

VARIABLES
    base,      \* the first block that matters to the account
    scanned,   \* the blocks that have been scanned
    position,  \* the next block to scan
    saved      \* where a new search will start

ledger == <<base, scanned, position, saved>>

Complete(p) == base .. (p - 1) \subseteq scanned

Init ==
    /\ base \in Nat
    /\ scanned = {}
    /\ position = base /\ saved = base

\* A scanned block follows a scanned block, or is the first one that matters.
Scan ==
    /\ scanned \subseteq scanned'
    /\ \A b \in scanned' \ scanned : b > base => b - 1 \in scanned'
    /\ UNCHANGED <<base, position, saved>>

\* The position or the saved height moves, forward or back.
Move ==
    /\ Complete(position') /\ Complete(saved')
    /\ UNCHANGED <<base, scanned>>

Next == Scan \/ Move

Spec == Init /\ [][Next]_ledger
===============================================================================
