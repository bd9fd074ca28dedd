CONSTANTS
    w1 = w1
    NoWorker = NoWorker
    NoLimit = NoLimit
    Workers = {w1}
    Configs <- MCAll
    TokenUses = {3}
    MaxAttempts = 3
    MaxStalls = 1
    MaxFaults = 2
    MaxCrashes = 1
    MaxLockLosses = 0
SPECIFICATION FairSpec
CHECK_DEADLOCK FALSE
PROPERTIES
    EnqueuedRunSettles
    CancelSettles
