SPECIFICATION Spec
CONSTANTS
    NumSockets = 2
    PoolSize = 16
    MaxOpens = 4
    Names <- MCNames
    Outcomes <- MCOutcomes
PROPERTY PreviousResultIsAllocated
CHECK_DEADLOCK FALSE
