SPECIFICATION FairSpec
CONSTANTS
    InitialLogs <- NewSession
    Batches <- TwoBatches
    MaxSteps = 1
    MaxTurns = 2
    MaxBatches = 2
    MaxCrashes = 1
    MaxTransient = 0
    StorageBreaks = TRUE
CHECK_DEADLOCK FALSE
INVARIANTS
    Recoverable
    SettledLog
    HonestResults
    ApprovedEffects
    RequestPaired
PROPERTIES
    CancelStopsWork
    TurnEnds
