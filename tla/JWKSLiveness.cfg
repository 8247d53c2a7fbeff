SPECIFICATION FairSpec
CONSTANTS
    Kids = {k1, k2}
    Threads = {t1, t2}
    NoThread = NoThread
    AllKeys = AllKeys
    TTL = 0
    Lag = 0
    UseDisk = TRUE
    SharedDisk = FALSE
    AnswerKinds = {"ok", "down", "garbage"}
    MaxClock = 2
    MaxPubs = 2
    MaxRestarts = 1
    MaxBack = 1
INVARIANT IInv
PROPERTIES ImplementsKeyCache LockReleased SomeoneReturns
