CONSTANTS
    LLBits = 8
    Slots = 2
    MaxDepth = 2
    DiscardAt = 6
    Method = {"ping", "push", "get", "list", "count", "raw"}
    CmdLen = 2
    Addresses = 2
    REDIS_CONNECT_RETRIES = 2
    MaxCmd = 2
    MaxDial = 2
    MaxFault = 1
SPECIFICATION Spec
INVARIANT ReadsWholeReplies
INVARIANT OwnReply
INVARIANT SentOnce
INVARIANT SocketsAccounted
PROPERTY CallReturns
CHECK_DEADLOCK FALSE
