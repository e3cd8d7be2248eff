CONSTANTS
    Clients = {1, 2}
    BigEndian = {1}
    ServerBigEndian = TRUE
    KeepAliveInterval = 1
    Grace = 0
    Wrap = 1000
    VmemPackets = 2
    FilePackets = 1
    QueueLength = 2
    MaxJobs = 3
SPECIFICATION Spec
INVARIANTS ServedInOrder BusyMeansEngaged PacketsAreOwn StopHolds
PROPERTIES AbortMeansSilent QueueDrains
