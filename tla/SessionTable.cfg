\* Every call of the table in every order, next_num wrapping where mod_num
\* divides U32, and the clock ticking inside clean_expired_session.
CONSTANTS
    Endpoints <- MCEndpoints
    NumEntry = 2
    MinPort = 4
    MaxPort = 5
    U32 = 4
    Timeouts = {0, 1}
    CountInit <- MCCountZero
    MaxTime = 2
    MaxSessions = 3
SPECIFICATION FairSpec
INVARIANTS TypeOK RoundTrip MemorySafe CleanComplete NullMeansExhausted
PROPERTIES CleanTerminates ImplementsNatTable
