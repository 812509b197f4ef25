CONSTANTS
    Client = {c1, c2}
    PoolSize = 2
    Sender = {logic, timeout}
    MaxMsg = 4
    MaxConn = 3
SPECIFICATION Spec
INVARIANT BufferInOnePlace
INVARIANT OneSendAtATime
INVARIANT SentInOrder
PROPERTY EventuallySent
CHECK_DEADLOCK FALSE
