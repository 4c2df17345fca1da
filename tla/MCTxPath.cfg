SPECIFICATION PathSpec
CONSTANTS
    Packets <- MCPackets
    BufDepth = 8
    MaxSent = 10
    BufferPackets <- MCBufferPackets
    Depth = 8
    MaxBufferSent = 12
    MergePackets <- MCMergePackets
    MergeDepth = 2
    MaxMergeSent = 4
INVARIANTS
    NeverOverflows
    NeverUnderflows
    TailAligned
    CountExact
    NeverFull
    OutFramed
    LanesKept
PROPERTIES
    NoUnderrun
    BuffersImplementFifo
    PathDelivers
    LanesServed
