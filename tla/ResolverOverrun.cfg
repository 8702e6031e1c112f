SPECIFICATION Spec
CONSTANTS
    CachedEntries = 2
    NULL = NULL
    Hosts <- MCHosts
    Addresses <- MCAddresses
    Replies <- MCReplies
    CharSigned <- MCCharSigned
    MaxCalls = 4
INVARIANT NameCountedOnce
CHECK_DEADLOCK FALSE
