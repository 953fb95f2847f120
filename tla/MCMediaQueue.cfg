CONSTANTS
    Capacity = 3
    Sizes = {1, 2}
    Generations = {1, 2}
    Horizon = 2
    MaxFrames = 5
SPECIFICATION Spec
INVARIANTS
    NothingUncounted
PROPERTIES
    ImplementsFifo
CHECK_DEADLOCK FALSE
