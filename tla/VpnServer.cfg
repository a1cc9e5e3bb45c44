\* Failing calls, garbage in count and sock_len, more endpoints than ports,
\* and a frame for another host in front of one for this host.
CONSTANTS
    Endpoints <- MCEndpoints
    NumEntry = 2
    MinPort = 4
    MaxPort = 5
    U32 = 3
    Timeouts = {0}
    CountInit <- MCCountGarbage
    MaxTime = 1
    MaxSessions = 3
    Datagrams <- MCDatagrams
    Frames <- MCFrames
    SessionTimeout = 0
    SockLens = {"enough", "short", "negative"}
    MayFail = TRUE
    QueueLimit = 1
    FrameLimit = 2
SPECIFICATION FairServerSpec
INVARIANTS ServerTypeOK ReplyReachesOwner NullMeansExhausted
PROPERTIES FrameServed
CHECK_DEADLOCK FALSE
