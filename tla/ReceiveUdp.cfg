SPECIFICATION Spec
CONSTANTS
    Radix <- MCRadix
    LineFeeds <- MCLineFeeds
    TCP_MAX_MTU = 3
    MaxPacket = 3
    RxMemory = 20
    Udp = TRUE
    AddrWord = 4
    MaxBytes = 6
    MaxBufLen = 2
INVARIANT FirstWordIsPacketSize
