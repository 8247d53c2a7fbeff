CONSTANTS
    k1 = k1
    k2 = k2
    Kids = {k1, k2}
    Callers = {c1, c2}
    AllKeys = AllKeys
    TTL = 0
    Lag = 1
    UseJWKS = TRUE
    Secret = Secret
    NoKey = NoKey
    NotRSA = {}
    RequiredType = "none"
    Leeway = 1
    StrictSub = TRUE
    Tokens <- RealmTokens
    MaxClock = 3
    MaxPubs = 2
    MaxBack = 1
SYMMETRY Symmetric
SPECIFICATION Spec
INVARIANTS VInv EntriesAgree
PROPERTIES OnlyGenuineAccepted NoFalseReject WithdrawnKeyBound
