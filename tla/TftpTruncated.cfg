SPECIFICATION Spec
CONSTANTS
    Servers = {1, 2}
    Blocks <- MCRefusing
    BlockMod = 8
    MaxRequests = 2
    MaxSurplus = 1
    Strays = {}
    MAX_RESENDS = 3
INVARIANT QuitAtEnd
