SPECIFICATION FairSpec
CONSTANTS
    NumSockets = 2
    PoolSize = 8
    MaxOpens = 4
    Names <- MCNames
    Outcomes <- MCOutcomes
INVARIANT IInv
INVARIANT HeapSound
INVARIANT NoLeak
INVARIANT OneChannelPerSocket
INVARIANT ChannelOwnsSocket
CHECK_DEADLOCK FALSE
PROPERTY OpenEnds
