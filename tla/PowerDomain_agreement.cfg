SPECIFICATION PdFairSpec
CONSTANTS
    Domains <- MCDomains
    Parent <- MCParent
    Cores = {0, 1}
    Clusters = {2}
    States <- MCStates
    Depth <- MCDepth
    Allowed <- MCAllowed
    Requests <- MCRequests
    BootStates <- MCBootStates
    Before <- ClusterBefore
    After <- CoreAfter
    None = None
    MaxAsks = 1
    MayFail = FALSE
    Overlap = FALSE
PROPERTY AgreedFirst
CHECK_DEADLOCK FALSE
