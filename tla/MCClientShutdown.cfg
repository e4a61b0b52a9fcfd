SPECIFICATION FairSpec
CONSTANTS
    p1 = p1
    p2 = p2
    k1 = k1
    Publishers <- Nobody
    Ackers <- OneAcker
    MaxAttempts = 1
    MaxInFlight = 1
    Buffer = 1
    BaseBackoff = 1
    MaxBackoff = 3
    UseMetadata = FALSE
    NetworkFaults = TRUE
    AppStops = TRUE
INVARIANTS
    OnlyTheWorkerBlocks
PROPERTIES
    DrainWaits
    Reconnects
    Stops
    SendersReturn
CHECK_DEADLOCK FALSE
