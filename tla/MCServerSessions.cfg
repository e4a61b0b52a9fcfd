SPECIFICATION FairSpec
CONSTANTS
    s1 = s1
    s2 = s2
    c1 = c1
    w = w
    p1 = p1
    Streams <- TwoStreams
    Closers <- OneCloser
    Watcher = w
    Pushers <- OnePusher
    Kept <- KeepsFirst
    Insecure = FALSE
INVARIANTS
    QuietAfterClose
    ClosedOnce
    OneSendPerStream
    OnlySidecarsAreWaitedFor
PROPERTIES
    ShutdownCompletes
    KeepsSessionPromise
CHECK_DEADLOCK FALSE
