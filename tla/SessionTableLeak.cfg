\* The sessions given to free(), once the table is deleted.
CONSTANTS
    Endpoints <- MCEndpoints
    NumEntry = 2
    MinPort = 4
    MaxPort = 5
    U32 = 64
    Timeouts = {0}
    CountInit <- MCCountZero
    MaxTime = 1
    MaxSessions = 2
SPECIFICATION Spec
INVARIANTS AllFreed
