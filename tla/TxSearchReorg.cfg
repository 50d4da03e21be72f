SPECIFICATION Spec
CONSTANTS
    Handlers = {w1}
    Kinds = {"login", "info", "wallet", "recent"}
    ImportFee = 1
    Lookahead = 2
    MaxImport = 2
    RescanGap = 1
    FirstHeight = 1
    MaxHeight = 3
    MaxRequests = 3
    MaxPops = 1
    MaxFaults = 0
SYMMETRY Symmetry
INVARIANT ReplacedBlocksRescanned
CHECK_DEADLOCK FALSE
