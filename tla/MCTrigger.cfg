CONSTANTS
    Keys = {1, 2}
    Batches <- SmallBatches
    TriggerBatch = 1
    ClearChunk = 1
    Retries = 2
    MaxOps = 3
    MaxAdmin = 3
    MaxFails = 1
    MaxCrashes = 1
SPECIFICATION FairSpec
INVARIANTS TypeOK TouchesKept ChangesExactlyOnce
PROPERTY QueueDrains
CHECK_DEADLOCK FALSE
