SPECIFICATION FairSpec
CONSTANTS
    Radix = 2
    TxMemory = 3
    MaxLen = 3
    MaxBytes = 5
    MaxOpens = 2
INVARIANT PeerInOrder
INVARIANT PreviousSendDone
INVARIANT FreeSizeHonest
PROPERTY SendtoHonest
CHECK_DEADLOCK FALSE
PROPERTY SendReturns
PROPERTY AcceptedIsDelivered
