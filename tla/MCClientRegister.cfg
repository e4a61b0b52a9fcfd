SPECIFICATION Spec
CONSTANTS
    p1 = p1
    p2 = p2
    k1 = k1
    Publishers <- OnePublisher
    Ackers <- Nobody
    MaxAttempts = 2
    MaxInFlight = 1
    Buffer = 1
    BaseBackoff = 1
    MaxBackoff = 3
    UseMetadata = FALSE
    NetworkFaults = TRUE
    AppStops = FALSE
INVARIANTS
    RegisterFirst
CHECK_DEADLOCK FALSE
