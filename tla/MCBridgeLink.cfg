SPECIFICATION Spec
CONSTANTS
    c1 = c1
    c2 = c2
    Callers <- TwoCallers
    Window = 1
    Buffer = 1
    MaxStreams = 2
    MaxDeliveries = 3
SYMMETRY Symmetry
INVARIANTS
    TypeOK
    Conserved
    OnlyTheCircleBlocksAck
    EndNoticed
PROPERTIES
    InOrder
    AckKeepsPromise
CHECK_DEADLOCK FALSE
