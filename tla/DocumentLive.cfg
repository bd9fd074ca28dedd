CONSTANTS
    w1 = w1
    w2 = w2
    NoWorker = NoWorker
    UploadJob = UploadJob
    d1 = d1
    Workers = {w1, w2}
    Reindexes = {}
    Deletes = {d1}
    MaxAttempts = 3
    MaxStalls = 1
    MaxTroubles = 2
    NoBatch = NoBatch
    Batches = {1, 2, 3, 4, 5}
SPECIFICATION FairSpec
CHECK_DEADLOCK FALSE
PROPERTIES
    DocumentSettles
