\* Packets read whole, and packets shorter than their total length says.
CONSTANTS
    Packets <- MCCutOff
    Leftovers <- MCLeftovers
    Addrs <- MCAddrs
    PortNums <- MCPorts
SPECIFICATION Spec
INVARIANTS NothingStale
CHECK_DEADLOCK FALSE
