CONSTANTS
    BufferSize = 3
    Byte = {0, 1}
    Chunk <- MCChunk
SPECIFICATION SpecRing
PROPERTY ImplementsByteQueue
PROPERTY CallsAreLoops
