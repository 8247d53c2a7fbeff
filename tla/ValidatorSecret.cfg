CONSTANTS
    k1 = k1
    k2 = k2
    Kids = {k1}
    Callers = {c1}
    AllKeys = AllKeys
    TTL = 1
    Lag = 0
    UseJWKS = FALSE
    Secret = Secret
    NoKey = NoKey
    NotRSA = {}
    RequiredType = "access"
    Leeway = 1
    StrictSub = FALSE
    Tokens <- HubTokens
    MaxClock = 3
    MaxPubs = 1
    MaxBack = 0
SPECIFICATION Spec
INVARIANTS TypeOK PrincipalsCoherent OnlyOddTokensEscape
PROPERTY OnlyGenuineAccepted
