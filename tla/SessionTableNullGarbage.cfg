\* The port search with whatever the stack holds in count.
CONSTANTS
    Endpoints <- MCEndpoints
    NumEntry = 2
    MinPort = 4
    MaxPort = 5
    U32 = 64
    Timeouts = {0, 1}
    CountInit <- MCCountGarbage
    MaxTime = 1
    MaxSessions = 3
SPECIFICATION Spec
INVARIANTS NullMeansExhausted
