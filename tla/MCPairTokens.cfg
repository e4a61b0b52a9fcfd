SPECIFICATION Spec
CONSTANTS
    g1 = g1
    r1 = r1
    r2 = r2
    v1 = v1
    f1 = f1
    f2 = f2
    Issuers <- OneIssuer
    Revokers <- TwoRevokers
    Verifiers <- OneVerifier
    Refreshers <- TwoRefreshers
    AccessTTL = 3
    RefreshTTL = 4
    ClockSkew = 1
    Second = 2
    RedisFails = TRUE
    MaxPairs = 1
    MaxVersion = 2
    MaxTime = 5
SYMMETRY Symmetry
INVARIANTS
    RefreshOnce
    RefreshHonoured
PROPERTIES
    RevokedUntilExpiry
    SupersededRefused
CHECK_DEADLOCK FALSE
