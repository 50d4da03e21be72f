SPECIFICATION Spec
CONSTANTS
    Handlers = {w1}
    Kinds = {"login", "info", "wallet", "recent"}
    ImportFee = 0
    Lookahead = 2
    MaxImport = 2
    RescanGap = 1
    FirstHeight = 1
    MaxHeight = 3
    MaxRequests = 3
    MaxPops = 0
    MaxFaults = 0
PROPERTY NewPositionKept
CHECK_DEADLOCK FALSE
