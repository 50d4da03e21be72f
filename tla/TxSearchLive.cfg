SPECIFICATION FairSpec
CONSTANTS
    Handlers = {w1}
    Kinds = {"login", "info", "wallet", "recent"}
    ImportFee = 1
    Lookahead = 2
    MaxImport = 2
    RescanGap = 1
    FirstHeight = 1
    MaxHeight = 2
    MaxRequests = 3
    MaxPops = 1
    MaxFaults = 0
PROPERTY CatchesUp
PROPERTY AbandonedThreadEnds
PROPERTY RequestsAnswered
CHECK_DEADLOCK FALSE
