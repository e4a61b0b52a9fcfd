SPECIFICATION Spec
CONSTANTS
    p1 = p1
    p2 = p2
    k1 = k1
    Publishers <- TwoPublishers
    Ackers <- OneAcker
    MaxAttempts = 3
    MaxInFlight = 1
    Buffer = 1
    BaseBackoff = 1
    MaxBackoff = 3
    UseMetadata = FALSE
    NetworkFaults = TRUE
    AppStops = FALSE
SYMMETRY Symmetry
INVARIANTS
    TypeOK
    RegisterBeforeTraffic
    OneSendAtATime
    OneConsumer
    NoPanicInService
    SlotsExact
    BackoffExact
    ConnectionsClosed
    OnlyTheWorkerIsWaitedFor
CHECK_DEADLOCK FALSE
