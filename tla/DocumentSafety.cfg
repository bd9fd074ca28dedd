CONSTANTS
    w1 = w1
    w2 = w2
    NoWorker = NoWorker
    UploadJob = UploadJob
    r1 = r1
    d1 = d1
    Workers = {w1, w2}
    Reindexes = {r1}
    Deletes = {d1}
    MaxAttempts = 2
    MaxStalls = 1
    MaxTroubles = 1
    NoBatch = NoBatch
    Batches = {1, 2, 3, 4, 5}
SPECIFICATION Spec
CHECK_DEADLOCK FALSE
SYMMETRY WorkerSymmetry
INVARIANTS
    TypeOK
    IndexedIsSearchable
    DeletedIsGone
    ProcessingIsAlive
PROPERTIES
    DeletionIsFinal
