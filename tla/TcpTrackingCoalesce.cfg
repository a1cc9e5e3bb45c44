\* A FIN may be retransmitted together with the data before it.
CONSTANTS
    U32 = 32
    ClientISN = 20
    WorldISN = 7
    ClientData = 1
    WorldData = 0
    MaxSegments = 5
    Coalesce = TRUE
SPECIFICATION Spec
INVARIANTS NeverAhead
