\* Failing calls, garbage in ifr_flags, and datagrams of every kind.
CONSTANTS
    StackFlags = {"plain", "vnet", "invalid"}
    DatagramKinds = {"packet", "empty", "junk"}
    MayFail = TRUE
    QueueLimit = 3
    Packets <- MCPackets
SPECIFICATION FairSpec
INVARIANTS TypeOK SetupAllOrNothing
PROPERTIES RelayInOrder TunServed UdpServed
CHECK_DEADLOCK FALSE
