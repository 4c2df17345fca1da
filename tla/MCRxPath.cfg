SPECIFICATION PathSpec
CONSTANTS
    Packets <- MCPackets
    BufDepth = 2
    MaxSent = 7
    ProtoPackets <- MCProtoPackets
    MaxProtoSent = 8
INVARIANTS
    RoutedToItsLane
    RoutedByProtocol
PROPERTIES
    SplittersImplementDemux
    PathDelivers
