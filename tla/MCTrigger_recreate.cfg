CONSTANTS
    Keys = {1, 2}
    Batches <- SmallBatches
    TriggerBatch = 1
    ClearChunk = 1
    Retries = 2
    MaxOps = 3
    MaxAdmin = 3
    MaxFails = 0
    MaxCrashes = 0
SPECIFICATION Spec
INVARIANT TouchesKeptAfterRecreate
CHECK_DEADLOCK FALSE
