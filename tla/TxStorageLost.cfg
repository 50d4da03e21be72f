SPECIFICATION FairSpec
CONSTANTS
    t1 = t1
    t2 = t2
    o1 = o1
    o2 = o2
    Txs <- MCTxs
    Outputs <- MCOutputs
    Creates <- MCCreates
    Spends <- MCSpends
    Nothing = Nothing
    SpendableAge = 2
    Lookahead = 2
    MaxHeight = 3
    MaxPops = 0
    MaxImports = 1
    MaxCrashes = 1
    MaxSkips = 0
PROPERTY RescanRepopulates
CHECK_DEADLOCK FALSE
