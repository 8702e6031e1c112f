SPECIFICATION FairSpec
CONSTANTS
    A = A
    B = B
    NoServer = NoServer
    Servers <- MCServers
    ClockMod = 16
    Patience = 3
    MaxTicks = 2
    MaxRequestTicks = 1
    AckOptions <- MCAckOptions
    MaxQueue = 1
    MaxRuns = 1
    BootTimes <- MCBootTimes
INVARIANT IInv
INVARIANT RequestIsConsistent
INVARIANT TimerIsExact
CHECK_DEADLOCK FALSE
PROPERTY ImplementsLease
PROPERTY InitReturns
