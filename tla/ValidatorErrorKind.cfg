CONSTANTS
    k1 = k1
    k2 = k2
    Kids = {k1}
    Callers = {c1}
    AllKeys = AllKeys
    TTL = 1
    Lag = 0
    UseJWKS = FALSE
    Secret = Secret
    NoKey = NoKey
    NotRSA = {}
    RequiredType = "access"
    Leeway = 1
    StrictSub = TRUE
    Tokens <- NullAccount
    MaxClock = 4
    MaxPubs = 1
    MaxBack = 0
SPECIFICATION Spec
INVARIANT OnlyInvalidToken
