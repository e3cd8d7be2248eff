CONSTANTS
    Throughputs = {0, 1, 2000, 2500}
    Chunks = {0, 1, 100, 999}
    Word = 2097152
    PacketCounts = {1, 3}
    Timeouts = {0, 1}
    KeepAlives = {0, 200}
    BootTimes = {0, 2095900, 2096500}
    Delays = {0, 1, 19, 199, 1999, 199999}
    MaxRepeats = 1
    MaxSilent = 11
SPECIFICATION ClockSpec
INVARIANTS
    RoundIsUsable
    PaceKeepsThroughput
    LateMeansOverdue
    IdleMeansSilent
    AliveWithinLimit
PROPERTY LoopEnds
