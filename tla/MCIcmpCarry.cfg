SPECIFICATION ChainSpec
CONSTANTS
    Packets <- MCPackets
    BufDepth = 2
    MaxSent = 0
    SwapPackets <- MCSwapPackets
    MaxSwapSent = 0
    ChksumPackets <- SecondCarry
    MaxChksumSent = 6
INVARIANTS
    HeaderChecksumRight
