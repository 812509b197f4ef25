CONSTANTS
    LLBits = 8
    Slots = 2
    Width <- MCWidth
    SDS_MAX_PREALLOC = 5
    StaticBuf = 3
    Chunk <- MCChunk
    Formats <- MCFormats
    Sets <- MCSets
    Numbers <- MCNumbers
    Positions <- MCPositions
    MaxLen = 4
SPECIFICATION Spec
INVARIANT HeaderSound
INVARIANT CallsDoWhatTheySay
INVARIANT TextsRoundTrip
