SPECIFICATION FairSpec
CONSTANTS
    Callers = {w1, w2}
    PoolSize = 2
    MaxAttempts = 2
    Addresses = 2
    MaxFaults = 2
    MaxCalls = 1
    None = None
INVARIANTS
    IInv
PROPERTIES
    LockComesBack
    HeartbeatReturns
    CallHolds
