CONSTANTS
    Throughputs = {2000}
    Chunks = {1, 100}
    Word = 2097152
    PacketCounts = {3}
    Timeouts = {1}
    KeepAlives = {0}
    BootTimes = {0}
    Delays = {0, 199}
    MaxRepeats = 1
    MaxSilent = 11
SPECIFICATION ClockSpec
INVARIANT IdleStopsInTime
