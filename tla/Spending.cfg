SPECIFICATION FairSpec
CONSTANTS
    t0 = t0
    tHeight = tHeight
    tEarly = tEarly
    tTime = tTime
    a = a
    b = b
    Txs <- MCTxs
    Height <- MCHeight
    UnlockTime <- MCUnlockTime
    SpendableAge = 2
    MaxBlockNumber = 10
    V2Height = 1
    LeewayV1 = 1
    LeewayV2 = 0
    Amounts <- MCAmounts
    Requests <- MCRequests
    Missing = Missing
    Counts = {1, 2, 3}
    MaxRingSize = 1
    MaxTrials = 2
    Word = 16
    MaxTop = 2
    MaxClock = 1
    MaxOuts = 2
    MaxTroubles = 1
INVARIANT OfferedIsSpendable
INVARIANT DecoysDistinct
INVARIANT DecoysHaveKeys
PROPERTY SearchEnds
PROPERTY SpendableIsOffered
CHECK_DEADLOCK FALSE
