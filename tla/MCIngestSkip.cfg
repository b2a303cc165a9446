SPECIFICATION Spec
CONSTANTS
    Addresses <- MCAddresses
    Clients = {"erc20"}
    Budget = 1
    Rescan = 1
    NativeOverlap = 1
    ChunkSize = 1
    MaxSpan = 2
    BlocksPerTick = 2
    Turn = 2
    MaxLag = 1
    MaxDrift = 1
    MaxHead = 3
    MaxFaults = 1
    MaxCrashes = 1
CHECK_DEADLOCK FALSE
INVARIANT NeverSkipped

