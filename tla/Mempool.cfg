SPECIFICATION FairSpec
CONSTANTS
    t1 = t1
    t2 = t2
    t3 = t3
    k1 = k1
    k2 = k2
    Handlers = {w1}
    Txs <- MCTxs
    Nothing = Nothing
    Received <- MCReceived
    Ring <- MCRing
    KeyImages <- MCKeyImages
    Fee = t1
    PaymentDepth = 2
    Word = 16
    MaxHeight = 2
    MaxTroubles = 1
INVARIANT CountedOnce
INVARIANT MissingMeansMined
PROPERTY PaymentMissedOnlyIfBuried
INVARIANT SubmittedIsInNetwork
PROPERTY TotalsConverge
PROPERTY RefusalsEnd
CHECK_DEADLOCK FALSE
