CONSTANTS
    w1 = w1
    NoWorker = NoWorker
    NoLimit = NoLimit
    Workers = {w1}
    Configs <- MCChat
    TokenUses = {3}
    MaxAttempts = 3
    MaxStalls = 1
    MaxFaults = 0
    MaxCrashes = 0
    MaxLockLosses = 0
SPECIFICATION FairSpec
CHECK_DEADLOCK FALSE
PROPERTIES
    CancelAlwaysSettles
