SPECIFICATION Spec
CONSTANTS
    p1 = p1
    p2 = p2
    p3 = p3
    here = here
    there = there
    Proc = {p1, p2, p3}
    Host = {here, there}
    HostOf <- OneHost
    MaxEntries = 3
    MaxAttempts = 2
    MaxCalls = 3
    MaxCrashes = 1
    PidReuse = FALSE
CHECK_DEADLOCK FALSE
SYMMETRY Symmetry
PROPERTIES
    NoLostUpdate
