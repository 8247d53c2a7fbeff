SPECIFICATION Spec
CONSTANTS
    Kids = {k1, k2}
    Threads = {t1, t2}
    NoThread = NoThread
    AllKeys = AllKeys
    TTL = 1
    Lag = 1
    UseDisk = TRUE
    SharedDisk = TRUE
    AnswerKinds = {"ok", "down", "empty", "badkeys"}
    MaxClock = 5
    MaxPubs = 2
    MaxRestarts = 1
    MaxBack = 1
SYMMETRY Symmetric
INVARIANTS IInv FetchJustified
PROPERTIES ServedKeysPublished RetiredKeyBound NotFoundIsHonest OutageServesCache NoRollback OneGetPerTurn
