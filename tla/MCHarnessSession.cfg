SPECIFICATION HSpec
CONSTANTS
    InitialLogs <- TwoTurns
    Batches <- OneCall
    MaxSteps = 3
    MaxTurns = 3
    MaxBatches = 2
    MaxCrashes = 1
    MaxTransient = 1
    StorageBreaks = TRUE
    RetainTurns = 1
    MaxOverflowRetries = 1
    MaxCommands = 1
    MaxSummaries = 2
    HostSerialises = TRUE
CHECK_DEADLOCK FALSE
INVARIANTS
    RequestPaired
    SummariesAccepted
    RetainsRecentTurns
    RetriesMakeProgress
    HistoryCovered
PROPERTIES
    BrokenOnlyByOrphans
