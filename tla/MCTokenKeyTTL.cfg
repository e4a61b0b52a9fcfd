SPECIFICATION Spec
CONSTANTS
    u1 = u1
    u2 = u2
    c1 = c1
    c2 = c2
    v1 = v1
    NoToken = NoToken
    Users <- OneUser
    Callers <- TwoCallers
    Verifiers <- OneVerifier
    TTL = 2
    ClockSkew = 0
    Second = 1
    KeyTTL = 2
    RedisFails = FALSE
    MaxIncrs = 4
    MaxTime = 4
INVARIANTS
    PreviousInvalid
CHECK_DEADLOCK FALSE
