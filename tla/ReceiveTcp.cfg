SPECIFICATION ReaderSpec
CONSTANTS
    Radix <- MCRadix
    LineFeeds <- MCLineFeeds
    TCP_MAX_MTU = 3
    MaxPacket = 3
    RxMemory = 14
    Udp = FALSE
    AddrWord = 4
    MaxBytes = 5
    MaxBufLen = 2
INVARIANT InOrder
INVARIANT CursorInBounds
INVARIANT IInv
PROPERTY NoInputIsHonest
PROPERTY ImplementsByteStream
PROPERTY CallReturns
PROPERTY AllDelivered
PROPERTY EofSeen
