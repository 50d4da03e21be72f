SPECIFICATION FairSpec
CONSTANTS
    Workers = {w1, w2, w3}
    Tasks = {k1, k2, k3, k4}
    Explicit = {k1, k2, k3}
    Nothing = Nothing
INVARIANT FramesAlive
INVARIANT WorkConserving
PROPERTY PoolSpec
PROPERTY TasksAnswered
PROPERTY DestroyCompletes
CHECK_DEADLOCK FALSE
