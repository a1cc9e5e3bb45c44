\* Well-formed packets and packets with contradicting lengths, rewritten or
\* turned into a reset packet.
CONSTANTS
    Packets <- MCPackets
    Leftovers <- MCLeftovers
    Addrs <- MCAddrs
    PortNums <- MCPorts
SPECIFICATION Spec
INVARIANTS TypeOK ChecksumsValid OnlyRewritten InBounds ResetReversesPlain
CHECK_DEADLOCK FALSE
