SPECIFICATION Spec
CONSTANTS
    Channels = {0, 1}
    NoChannel = NoChannel
    IrqAgents = {0}
    PollAgents = {1}
    BadLengths = TRUE
    Spurious = FALSE
    PoolMayBeFull = FALSE
INVARIANT
    NoLostDoorbell
