CONSTANTS
    Chunk = 2
    PayloadSize = 9
    PacketsPerRound = 2
    KeepAlive = TRUE
    Requests <- MCRequests
    BufferPool = 2
SPECIFICATION Spec
INVARIANTS PacketsFollowRequest AtMostOneAfterStop
PROPERTIES ImplementsSender TransferEnds
