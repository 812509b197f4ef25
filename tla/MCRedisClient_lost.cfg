CONSTANTS
    LLBits = 8
    Slots = 2
    MaxDepth = 2
    DiscardAt = 6
    Method = {"ping"}
    CmdLen = 1
    Addresses = 1
    REDIS_CONNECT_RETRIES = 1
    MaxCmd = 1
    MaxDial = 1
    MaxFault = 1
SPECIFICATION Spec
INVARIANT NullReplyIsFailure
CHECK_DEADLOCK FALSE
