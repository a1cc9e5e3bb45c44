\* Garbage in ifr_flags.
CONSTANTS
    StackFlags = {"plain", "vnet"}
    DatagramKinds = {"packet"}
    MayFail = FALSE
    QueueLimit = 1
    Packets <- MCPackets
SPECIFICATION FairSpec
PROPERTIES SendsWholePacket
CHECK_DEADLOCK FALSE
