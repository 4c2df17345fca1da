SPECIFICATION PathSpec
CONSTANTS
    Packets <- OddReplies
    BufDepth = 8
    MaxSent = 2
    BufferPackets <- MCBufferPackets
    Depth = 8
    MaxBufferSent = 0
    MergePackets <- MCMergePackets
    MergeDepth = 2
    MaxMergeSent = 0
INVARIANTS
    TailAligned
