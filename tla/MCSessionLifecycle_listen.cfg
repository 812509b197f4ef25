CONSTANTS
    maxClientCount = 2
    MAX_PENDING_ACCEPT = 1
    Worker = {w1, w2}
    MaxSocket = 3
    MaxFail = 0
SPECIFICATION Spec
SYMMETRY Symmetry
INVARIANT AlwaysListening
CHECK_DEADLOCK FALSE
