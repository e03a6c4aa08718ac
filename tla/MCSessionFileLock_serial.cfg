SPECIFICATION SerialSpec
CONSTANTS
    p1 = p1
    p2 = p2
    p3 = p3
    here = here
    there = there
    Proc = {p1, p2, p3}
    Host = {here, there}
    HostOf <- OneHost
    MaxEntries = 2
    MaxAttempts = 2
    MaxCalls = 4
    MaxCrashes = 1
    PidReuse = TRUE
CHECK_DEADLOCK FALSE
SYMMETRY Symmetry
INVARIANTS
    TypeOK
    MutualExclusion
    SettledMemory
    HonestReport
PROPERTIES
    NoLostUpdate
    ActiveLockKept
    ImplementsLog
