SPECIFICATION FairSpec
CONSTANTS
    NULL = NULL
    c1 = c1
    a1 = a1
    a2 = a2
    b1 = b1
    Buffers <- MCBuffers
    DomainOf <- MCDomain
    BlockSize = 2
    QueueSize = 4
    PacketSize = 3
    Overread = 0
    MaxBlocks = 3
    MaxLost = 0
    MaxCommands = 1
    IsrShort = TRUE

PROPERTIES StreamLive BlocksPacked StoppedWaitEnds
