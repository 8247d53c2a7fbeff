SPECIFICATION Spec
CONSTANTS
    Kids = {k1, k2}
    Threads = {t1, t2}
    NoThread = NoThread
    AllKeys = AllKeys
    TTL = 1
    Lag = 1
    UseDisk = FALSE
    SharedDisk = FALSE
    AnswerKinds = {"ok", "badkeys", "garbage"}
    MaxClock = 4
    MaxPubs = 1
    MaxRestarts = 0
    MaxBack = 0
SYMMETRY Symmetric
PROPERTY FailedRefreshUsesStale
