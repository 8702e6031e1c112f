SPECIFICATION Spec
CONSTANTS
    Servers = {1, 2}
    Blocks <- MCTwo
    BlockMod = 8
    MaxRequests = 2
    MaxSurplus = 1
    Strays <- MCStrays
    MAX_RESENDS = 3
INVARIANT IInv
INVARIANT WrittenInOrder
INVARIANT AckedIsWritten
