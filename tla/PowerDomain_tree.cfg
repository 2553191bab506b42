SPECIFICATION PdFairSpec
CONSTANTS
    Domains <- MCDomains
    Parent <- MCParent
    Cores = {0, 1}
    Clusters = {2}
    States <- MCStates
    Depth <- MCDepth
    Allowed <- MCAllowed
    Requests <- MCRequests
    BootStates <- MCBootStates
    Before <- CoreBefore
    After <- SystemAfter
    None = None
    MaxAsks = 4
    MayFail = TRUE
    Overlap = FALSE
INVARIANTS TreeSafe
PROPERTIES AgreedFirst TakenInFull EventuallyDone
CHECK_DEADLOCK FALSE
