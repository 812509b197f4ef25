CONSTANTS
    maxClientCount = 3
    MAX_PENDING_ACCEPT = 2
    Worker = {w1, w2}
    MaxSocket = 4
    MaxFail = 1
SPECIFICATION Spec
SYMMETRY Symmetry
INVARIANT IndexInOnePlace
INVARIANT EndReportedBeforeReuse
INVARIANT AcceptsBounded
INVARIANT ConnectedIsHeard
CHECK_DEADLOCK FALSE
