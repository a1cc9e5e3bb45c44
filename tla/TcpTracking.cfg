\* Every order of delivery, sequence numbers that do not wrap, bare FINs.
CONSTANTS
    U32 = 32
    ClientISN = 20
    WorldISN = 7
    ClientData = 1
    WorldData = 0
    MaxSegments = 5
    Coalesce = FALSE
SPECIFICATION Spec
INVARIANTS TypeOK NeverAhead NeverBehind
