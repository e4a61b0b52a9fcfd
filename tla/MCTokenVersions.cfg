SPECIFICATION Spec
CONSTANTS
    u1 = u1
    u2 = u2
    c1 = c1
    c2 = c2
    v1 = v1
    NoToken = NoToken
    Users <- OneUser
    Callers <- TwoCallers
    Verifiers <- OneVerifier
    TTL = 2
    ClockSkew = 1
    Second = 2
    KeyTTL = 2
    RedisFails = TRUE
    MaxIncrs = 3
    MaxTime = 4
INVARIANTS
    OneTokenPerVersion
PROPERTIES
    KeepsPromise
CHECK_DEADLOCK FALSE
