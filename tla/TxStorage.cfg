SPECIFICATION FairSpec
CONSTANTS
    t1 = t1
    t2 = t2
    o1 = o1
    o2 = o2
    Txs <- MCTxs
    Outputs <- MCOutputs
    Creates <- MCCreates
    Spends <- MCSpends
    Nothing = Nothing
    SpendableAge = 3
    Lookahead = 2
    MaxHeight = 3
    MaxPops = 1
    MaxImports = 1
    MaxCrashes = 1
    MaxSkips = 1
INVARIANT ScannedTxsStored
INVARIANT KnownOutputsCached
INVARIANT InputsBacked
PROPERTY EventuallyStored
PROPERTY OrphansResolved
CHECK_DEADLOCK FALSE
