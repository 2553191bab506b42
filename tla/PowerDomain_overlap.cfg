SPECIFICATION PdFairSpec
CONSTANTS
    Domains <- MCDomains
    Parent <- MCParent
    Cores = {0, 1}
    Clusters = {2}
    States <- MCStates
    Depth <- MCDepth
    Allowed <- MCAllowed
    Requests <- MCRequests
    BootStates <- MCBootStates
    Before <- Nobody
    After <- Nobody
    None = None
    MaxAsks = 4
    MayFail = FALSE
    Overlap = TRUE
INVARIANT TreeSafe
CHECK_DEADLOCK FALSE
