SPECIFICATION FairSpec
CONSTANTS
    Addresses <- MCAddresses
    Clients = {"erc20", "native", "paged"}
    Budget = 1
    Rescan = 1
    NativeOverlap = 1
    ChunkSize = 1
    MaxSpan = 2
    BlocksPerTick = 2
    Turn = 2
    MaxLag = 1
    MaxDrift = 1
    MaxHead = 2
    MaxFaults = 1
    MaxCrashes = 1
CHECK_DEADLOCK FALSE
INVARIANTS TypeOK SkippedOnlyByFailure
PROPERTIES PendingPaymentFound
