SPECIFICATION FairSpec
CONSTANTS
    Servers = {1, 2}
    Blocks <- MCSame
    BlockMod = 8
    MaxRequests = 2
    MaxSurplus = 1
    Strays = {}
    MAX_RESENDS = 3
INVARIANT LengthOK
PROPERTY ImplementsTransfer
PROPERTY TransferEnds
