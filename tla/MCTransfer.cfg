CONSTANTS
    Chunk = 2
    PayloadSize = 7
    PacketsPerRound = 2
    KeepAlive = FALSE
    MaxIntervals = 1
    TimeoutRounds = 1
    Backlog = 1
    MaxInFlight = 2
SPECIFICATION Spec
INVARIANTS
    TypeOK
    BytesMatchClaims
    OkMeansComplete
    CancelledMeansMissing
    ExhaustedCharacterised
    ResumeAsksForMissing
    StopInterrupts
PROPERTIES
    ImplementsDownload
    AttemptEnds
    ServerReturns
