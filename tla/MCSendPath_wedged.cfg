CONSTANTS
    Client = {c1}
    PoolSize = 2
    Sender = {logic, timeout}
    MaxMsg = 2
    MaxConn = 2
SPECIFICATION Spec
INVARIANT QueueMoves
CHECK_DEADLOCK FALSE
