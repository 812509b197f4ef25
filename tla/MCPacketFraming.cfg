CONSTANTS
    BufferSize = 4
    Byte = {0, 2, 3, 4}
    Chunk <- MCChunk
    HeaderLength = 2
    Packet <- MCPacket
    MaxRecv = 3
    MaxSent = 3
    MaxGot = 4
SPECIFICATION Spec
INVARIANT PacketsIntact
PROPERTY EventuallyHandled
CHECK_DEADLOCK FALSE
