SPECIFICATION Spec
CONSTANTS
    Addresses = {a1}
    Objects = {o1, o2}
    Workers = {w1}
    Nobody = Nobody
    MaxFaults = 0
SYMMETRY Symmetry
INVARIANT ErasedThreadIsFinished
CHECK_DEADLOCK FALSE
