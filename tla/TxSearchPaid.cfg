SPECIFICATION Spec
CONSTANTS
    Handlers = {w1, w2}
    Kinds = {"login", "info", "wallet", "recent"}
    ImportFee = 1
    Lookahead = 2
    MaxImport = 2
    RescanGap = 1
    FirstHeight = 1
    MaxHeight = 2
    MaxRequests = 3
    MaxPops = 0
    MaxFaults = 1
SYMMETRY Symmetry
INVARIANT TypeOK
INVARIANT NoBlockSkipped
INVARIANT FulfilledMeansImported
PROPERTY LedgerSpec
CHECK_DEADLOCK FALSE
