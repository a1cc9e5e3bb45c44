\* One endpoint that retries its SYN, also after its session has expired.
CONSTANTS
    Endpoints <- MCEndpoints
    NumEntry = 2
    MinPort = 4
    MaxPort = 5
    U32 = 3
    Timeouts = {0}
    CountInit <- MCCountGarbage
    MaxTime = 1
    MaxSessions = 2
    Datagrams <- MCSyns
    Frames <- MCHostFrames
    SessionTimeout = 0
    SockLens = {"enough"}
    MayFail = FALSE
    QueueLimit = 1
    FrameLimit = 1
SPECIFICATION FairServerSpec
PROPERTIES ServedAgain
