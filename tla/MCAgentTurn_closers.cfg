SPECIFICATION Spec
CONSTANTS
    InitialLogs <- NewSession
    Batches <- OneBatch
    MaxSteps = 1
    MaxTurns = 2
    MaxBatches = 2
    MaxCrashes = 1
    MaxTransient = 1
    StorageBreaks = FALSE
CHECK_DEADLOCK FALSE
INVARIANTS
    Recoverable
