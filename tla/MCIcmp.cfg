SPECIFICATION ChainSpec
CONSTANTS
    Packets <- MCPackets
    BufDepth = 2
    MaxSent = 12
    SwapPackets <- MCSwapPackets
    MaxSwapSent = 11
    ChksumPackets <- MCChksumPackets
    MaxChksumSent = 14
INVARIANTS
    OnlyAddressesSwapped
    RepliesAsGoodAsRequests
    ChecksumOfOwnHeader
PROPERTIES
    ChainDelivers
