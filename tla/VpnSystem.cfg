\* One connection through the client, the Internet and the server; a restart.
CONSTANTS
    Endpoints <- MCEndpoints
    NumEntry = 1
    MinPort = 4
    MaxPort = 4
    U32 = 4
    Timeouts = {0}
    CountInit <- MCCountZero
    MaxTime = 1
    MaxSessions = 1
    Datagrams = {}
    Frames <- MCNoise
    SessionTimeout = 0
    SockLens = {"enough"}
    MayFail = FALSE
    QueueLimit = 1
    FrameLimit = 2
    Requests <- MCRequests
    Addresses <- MCAddresses
SPECIFICATION SystemSpec
INVARIANT AnswersAsked
PROPERTIES RequestAnswered
CHECK_DEADLOCK FALSE
