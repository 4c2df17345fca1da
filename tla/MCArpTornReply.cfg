SPECIFICATION Spec
CONSTANTS
    Packets <- MCPackets
    BufDepth = 1
    MaxSent = 18
    OWN_IP <- OwnIp
    GTW_IP <- GtwIp
    ARP_CACHE_LIFETIME = 1
    MaxPps = 0
INVARIANTS
    ReplyAnswersItsQuery
