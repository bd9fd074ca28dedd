CONSTANTS
    w1 = w1
    w2 = w2
    NoWorker = NoWorker
    NoLimit = NoLimit
    Workers = {w1, w2}
    Configs <- MCAll
    TokenUses = {3}
    MaxAttempts = 3
    MaxStalls = 1
    MaxFaults = 1
    MaxCrashes = 1
    MaxLockLosses = 1
SPECIFICATION Spec
CHECK_DEADLOCK FALSE
SYMMETRY WorkerSymmetry
INVARIANTS
    TypeOK
    ExclusiveExecution
    StepsInOrder
    AnswerOnce
    CompletedRunIsWhole
    DraftsAccountedFor
    LimitsHonoured
PROPERTIES
    StatusFollowsTable
    FinishedStepsStay
