SPECIFICATION Spec
CONSTANTS
    g1 = g1
    r1 = r1
    r2 = r2
    v1 = v1
    f1 = f1
    f2 = f2
    Issuers <- OneIssuer
    Revokers <- OneRevoker
    Verifiers <- OneVerifier
    Refreshers <- Nobody
    AccessTTL = 2
    RefreshTTL = 3
    ClockSkew = 1
    Second = 1
    RedisFails = FALSE
    MaxPairs = 1
    MaxVersion = 2
    MaxTime = 5
INVARIANTS
    BlockedWhileUnexpired
CHECK_DEADLOCK FALSE
