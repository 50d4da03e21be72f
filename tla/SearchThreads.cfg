SPECIFICATION FairSpec
CONSTANTS
    Addresses = {a1}
    Objects = {o1, o2, o3}
    Workers = {w1, w2}
    Nobody = Nobody
    MaxFaults = 1
INVARIANT OneThreadPerAddress
INVARIANT NoStrayThread
INVARIANT MappedObjectsAlive
PROPERTY FinishedThreadsErased
PROPERTY HandlersAnswered
PROPERTY PolledAccountSearched
PROPERTY ShutdownCompletes
CHECK_DEADLOCK FALSE
