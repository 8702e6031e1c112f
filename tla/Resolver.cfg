SPECIFICATION Spec
CONSTANTS
    CachedEntries = 2
    NULL = NULL
    Hosts <- MCHosts
    Addresses <- MCAddresses
    Replies <- MCReplies
    CharSigned <- MCCharSigned
    MaxCalls = 4
INVARIANT AnswerIsTrue
INVARIANT HostentIsTrue
INVARIANT HostentFits
PROPERTY ImplementsLru
CHECK_DEADLOCK FALSE
