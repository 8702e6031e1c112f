SPECIFICATION FairSpec
CONSTANTS
    NumProbes = 3
    Positions <- MCPositions
    NumSockets = 2
    MaxRuns = 4
INVARIANT IInv
INVARIANT AddressNeedsMac
INVARIANT ClientTakesTheLast
INVARIANT CleanStart
PROPERTY ProgramEnds
CHECK_DEADLOCK FALSE
