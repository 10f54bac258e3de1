SPECIFICATION Spec
CONSTANTS
    NULL = NULL
    c1 = c1
    a1 = a1
    a2 = a2
    b1 = b1
    Buffers <- MCBuffers
    DomainOf <- MCDomain
    BlockSize = 2
    QueueSize = 4
    PacketSize = 3
    Overread = 1
    MaxBlocks = 3
    MaxLost = 1
    MaxCommands = 1
    IsrShort = TRUE
SYMMETRY MCSymmetry
INVARIANTS
    StreamInv PipelineInv TypeOK BuffersConserved DmaExclusive PostsNeverFail
    NoAssertFailure
PROPERTIES StreamSafe
