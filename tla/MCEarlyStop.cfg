CONSTANTS
    Chunk = 2
    PacketsPerRound = 2
    KeepAlive = FALSE
    MaxIntervals = 2
    TimeoutRounds = 0
    Backlog = 1
    MaxInFlight = 1
    PayloadSize = 7
SPECIFICATION EarlyStopSpec
INVARIANT StopInterrupts
